---------------------------- MODULE Spec2Model ----------------------------
(***************************************************************************)
(* State-machine model of the MonkeyMask provider bridge                   *)
(* (src/providers/MonkeyMaskProvider.tsx): discovery of window.banano,     *)
(* the lifecycle event listeners, the auto-connect effect, the action      *)
(* wrappers and the account-info cache with its in-flight registry.        *)
(*                                                                         *)
(* JavaScript strings are tuples of one-character strings, so that         *)
(* String.prototype.includes is computed and not assumed.  null and        *)
(* undefined are the one-element tuples Null and Undefined, which no       *)
(* string equals.  One step of the model is one run-to-completion turn of  *)
(* the event loop: a call of a wrapper up to its first await, the          *)
(* settlement of a provider promise with every continuation chained to     *)
(* it, a provider event, or a timer callback.  React state is read as of   *)
(* the render in which the wrapper was invoked (the closure captures       *)
(* provider and publicKey); effects re-run in the step that changes their  *)
(* dependencies.                                                           *)
(***************************************************************************)
EXTENDS Integers, Sequences, FiniteSets, TLC

(* ------------------------------ bounds -------------------------------- *)
MaxPending ==
  2
MaxWaiters ==
  2
TickMs ==
  2500
MaxTime ==
  5000

(* ------------------------- program constants -------------------------- *)
ACCOUNT_INFO_TTL_MS ==
  5000
maxRetries ==
  3
PollDelayMs ==
  500
AutoConnectDelayMs ==
  800

(* --------------------------- string literals -------------------------- *)
PAT_ExtensionContextInvalidated ==
  <<"E","x","t","e","n","s","i","o","n"," ","c","o","n","t","e","x","t"," ","i","n","v","a","l","i","d","a","t","e","d">>
PAT_ContextInvalidated ==
  <<"c","o","n","t","e","x","t"," ","i","n","v","a","l","i","d","a","t","e","d">>
PAT_MessagePortClosed ==
  <<"m","e","s","s","a","g","e"," ","p","o","r","t"," ","c","l","o","s","e","d">>
PAT_WalletIsLocked ==
  <<"W","a","l","l","e","t"," ","i","s"," ","l","o","c","k","e","d">>
PAT_Locked ==
  <<"l","o","c","k","e","d">>
PAT_Unlock ==
  <<"u","n","l","o","c","k">>
PAT_UserRejected ==
  <<"U","s","e","r"," ","r","e","j","e","c","t","e","d">>
PAT_Rejected ==
  <<"r","e","j","e","c","t","e","d">>
PAT_DotBan ==
  <<".","b","a","n">>
PAT_DotBanano ==
  <<".","b","a","n","a","n","o">>
MSG_ConnectionLost ==
  <<"E","x","t","e","n","s","i","o","n"," ","c","o","n","n","e","c","t","i","o","n"," ","l","o","s","t","."," ","P","l","e","a","s","e"," ","r","e","f","r","e","s","h"," ","t","h","e"," ","p","a","g","e",".">>
MSG_WalletLocked ==
  <<"W","a","l","l","e","t"," ","i","s"," ","l","o","c","k","e","d","."," ","T","h","e"," ","e","x","t","e","n","s","i","o","n"," ","w","i","l","l"," ","p","r","o","m","p","t"," ","y","o","u"," ","t","o"," ","u","n","l","o","c","k"," ","f","o","r"," ","t","h","i","s"," ","t","r","a","n","s","a","c","t","i","o","n",".">>
MSG_UserRejected ==
  <<"T","r","a","n","s","a","c","t","i","o","n"," ","w","a","s"," ","r","e","j","e","c","t","e","d"," ","b","y"," ","u","s","e","r",".">>
ERR_NotInstalled ==
  <<"M","o","n","k","e","y","M","a","s","k"," ","n","o","t"," ","i","n","s","t","a","l","l","e","d">>
ERR_NoAccount ==
  <<"N","o"," ","a","c","c","o","u","n","t"," ","s","e","l","e","c","t","e","d">>
ERR_ResolvePrefix ==
  <<"F","a","i","l","e","d"," ","t","o"," ","r","e","s","o","l","v","e"," ","B","N","S"," ","n","a","m","e",":"," ">>
DEF_NotFound ==
  <<"M","o","n","k","e","y","M","a","s","k"," ","e","x","t","e","n","s","i","o","n"," ","n","o","t"," ","f","o","u","n","d">>
DEF_Connect ==
  <<"F","a","i","l","e","d"," ","t","o"," ","c","o","n","n","e","c","t"," ","t","o"," ","M","o","n","k","e","y","M","a","s","k">>
DEF_Disconnect ==
  <<"F","a","i","l","e","d"," ","t","o"," ","d","i","s","c","o","n","n","e","c","t">>
DEF_GetAccountInfo ==
  <<"F","a","i","l","e","d"," ","t","o"," ","g","e","t"," ","a","c","c","o","u","n","t"," ","i","n","f","o">>
DEF_ConnectFirst ==
  <<"P","l","e","a","s","e"," ","c","o","n","n","e","c","t"," ","y","o","u","r"," ","w","a","l","l","e","t"," ","f","i","r","s","t">>
DEF_BNSFailed ==
  <<"B","N","S"," ","r","e","s","o","l","u","t","i","o","n"," ","f","a","i","l","e","d">>
DEF_SendTransaction ==
  <<"F","a","i","l","e","d"," ","t","o"," ","s","e","n","d"," ","t","r","a","n","s","a","c","t","i","o","n">>
DEF_GetAccounts ==
  <<"F","a","i","l","e","d"," ","t","o"," ","g","e","t"," ","a","c","c","o","u","n","t","s">>
DEF_SignMessage ==
  <<"F","a","i","l","e","d"," ","t","o"," ","s","i","g","n"," ","m","e","s","s","a","g","e">>
DEF_VerifySignedMessage ==
  <<"F","a","i","l","e","d"," ","t","o"," ","v","e","r","i","f","y"," ","s","i","g","n","e","d"," ","m","e","s","s","a","g","e">>
DEF_SignBlock ==
  <<"F","a","i","l","e","d"," ","t","o"," ","s","i","g","n"," ","b","l","o","c","k">>
DEF_SendBlock ==
  <<"F","a","i","l","e","d"," ","t","o"," ","s","e","n","d"," ","b","l","o","c","k">>
PE_UserRejected ==
  <<"U","s","e","r"," ","r","e","j","e","c","t","e","d"," ","t","h","e"," ","r","e","q","u","e","s","t">>
PE_Invalidated ==
  <<"E","x","t","e","n","s","i","o","n"," ","c","o","n","t","e","x","t"," ","i","n","v","a","l","i","d","a","t","e","d",".">>
PE_PortClosed ==
  <<"T","h","e"," ","m","e","s","s","a","g","e"," ","p","o","r","t"," ","c","l","o","s","e","d"," ","b","e","f","o","r","e"," ","a"," ","r","e","s","p","o","n","s","e"," ","w","a","s"," ","r","e","c","e","i","v","e","d",".">>
PE_Locked ==
  <<"W","a","l","l","e","t"," ","i","s"," ","l","o","c","k","e","d">>
PE_Internal ==
  <<"I","n","t","e","r","n","a","l"," ","e","r","r","o","r">>
ADDR_1 ==
  <<"b","a","n","_","1">>
ADDR_2 ==
  <<"b","a","n","_","2">>
NAME_Cosmic ==
  <<"c","o","s","m","i","c",".","b","a","n">>
NAME_Long ==
  <<"x",".","b","a","n","a","n","o">>

Null ==
  <<"NULL">>
Undefined ==
  <<"UNDEFINED">>
EmptyString ==
  <<>>
Banano ==
  <<"WINDOW.BANANO">>

Addrs ==
  {ADDR_1, ADDR_2}
Balances ==
  {<<"1">>, <<"2">>}
Amounts ==
  {<<"1","0","0">>}
Hashes ==
  {<<"H","1">>}
\* destinations offered to sendTransaction: a raw address and two names
Destinations ==
  {ADDR_2, NAME_Cosmic, NAME_Long}
\* what provider.resolveBNS can resolve to: an address or the empty string
Resolutions ==
  {ADDR_2, EmptyString}
\* messages of the errors a provider promise can reject with; Undefined is
\* a rejection value without a message
ProviderErrors ==
  {PE_UserRejected, PE_Invalidated, PE_PortClosed, PE_Locked, PE_Internal,
   EmptyString, Undefined}
\* the accounts field of a connect event: absent (<<>>) or present (<<list>>)
AccountLists(pk) ==
  {<<>>, << <<>> >>, << <<pk>> >>, << <<ADDR_1, ADDR_2>> >>}
\* the smaller input sets of the scenario specifications
FewLists(pk) ==
  {<<>>, << <<ADDR_1, ADDR_2>> >>}
FewErrors ==
  {PE_Invalidated, PE_Internal}
OneAddr ==
  {ADDR_1}
OneBalance ==
  {<<"1">>}

(* ------------------------------ helpers ------------------------------- *)
\* JavaScript truthiness of a string | null | undefined
Truthy(s) ==
  s # Null /\ s # Undefined /\ s # EmptyString

\* String.prototype.includes
Includes(s, sub) ==
  \E i \in 0..(Len(s) - Len(sub)) : \A j \in 1..Len(sub) : s[i + j] = sub[j]

\* Map operations; a Map is a function whose domain is the set of its keys
EmptyMap ==
  [k \in {} |-> k]
MapHas(m, k) ==
  k \in DOMAIN m
MapSet(m, k, v) ==
  [x \in (DOMAIN m) \cup {k} |-> IF x = k THEN v ELSE m[x]]
MapDelete(m, k) ==
  [x \in (DOMAIN m) \ {k} |-> m[x]]

Min(S) ==
  CHOOSE x \in S : \A y \in S : x <= y

\* observable effects of a step, in program order
Call(method, args) ==
  [kind |-> "call", name |-> method, arg |-> args]
Callback(name, args) ==
  [kind |-> "callback", name |-> name, arg |-> args]
\* a wrapper's promise resolving: arg is <<>> for null or void and <<v>>
\* for the value v (the empty list [] of getAccounts is << <<>> >>)
Return(op, value) ==
  [kind |-> "return", name |-> op, arg |-> value]
Event(name, args) ==
  [kind |-> "event", name |-> name, arg |-> args]
Timeout(callback, delay) ==
  [kind |-> "setTimeout", name |-> callback, arg |-> <<delay>>]
Invoke(op, args) ==
  [kind |-> "invoke", name |-> op, arg |-> args]

VARIABLES
  windowBanano,      \* window.banano is defined (the extension has injected it)
  provConnected,     \* window.banano.isConnected
  mounted,           \* the initialization effect has run
  initialized,       \* initializedRef.current
  retryCount,        \* retryCount of the initialization effect
  pollTimer,         \* a setTimeout(tryInitialize, 500) is pending
  examined,          \* number of times window.banano has been examined
  listeners,         \* number of handlers subscribed per lifecycle event
  provider,          \* useState provider
  isInstalled,
  isConnected,
  isConnecting,
  publicKey,
  accounts,
  error,
  userDisconnected,
  cache,             \* accountInfoCacheRef.current
  inflight,          \* accountInfoInFlightRef.current: target -> promise
  autoConnect,       \* config.autoConnect
  autoTimer,         \* the auto-connect effect's setTimeout is pending
  pending,           \* provider promises not yet settled, by promise id
  now,               \* Date.now()
  out,               \* observable effects of the last step
  everDisconnected   \* the user has issued disconnect() in this session

extVars ==
  <<windowBanano, provConnected>>
discVars ==
  <<mounted, initialized, retryCount, pollTimer, examined, listeners, isInstalled>>
connVars ==
  <<isConnected, publicKey, accounts>>
cacheVars ==
  <<cache, inflight>>
vars ==
  <<windowBanano, provConnected, mounted, initialized, retryCount, pollTimer,
    examined, listeners, provider, isInstalled, isConnected, isConnecting,
    publicKey, accounts, error, userDisconnected, cache, inflight,
    autoConnect, autoTimer, pending, now, out, everDisconnected>>

Init ==
  /\ windowBanano = FALSE
  /\ provConnected = FALSE
  /\ mounted = FALSE
  /\ initialized = FALSE
  /\ retryCount = 0
  /\ pollTimer = FALSE
  /\ examined = 0
  /\ listeners = [connect |-> 0, disconnect |-> 0, accountChanged |-> 0]
  /\ provider = Null
  /\ isInstalled = FALSE
  /\ isConnected = FALSE
  /\ isConnecting = FALSE
  /\ publicKey = Null
  /\ accounts = <<>>
  /\ error = Null
  /\ userDisconnected = FALSE
  /\ cache = EmptyMap
  /\ inflight = EmptyMap
  /\ autoConnect = TRUE
  /\ autoTimer = FALSE
  /\ pending = EmptyMap
  /\ now = 0
  /\ out = <<>>
  /\ everDisconnected = FALSE

(* ---------------------------- handleError ----------------------------- *)
\* ErrorMessage without the fallback to defaultMessage
ErrorMessage_noDefault(err, defaultMessage) ==
  err

\* (err as Error)?.message || defaultMessage
ErrorMessage(err, defaultMessage) ==
  IF Truthy(err) THEN err ELSE defaultMessage

\* IsCapabilityLost without the 'message port closed' pattern
IsCapabilityLost_contextOnly(m) ==
  \/ Includes(m, PAT_ExtensionContextInvalidated)
  \/ Includes(m, PAT_ContextInvalidated)

\* the first condition of handleError
IsCapabilityLost(m) ==
  \/ Includes(m, PAT_ExtensionContextInvalidated)
  \/ Includes(m, PAT_ContextInvalidated)
  \/ Includes(m, PAT_MessagePortClosed)
IsLocked(m) ==
  \/ Includes(m, PAT_WalletIsLocked)
  \/ Includes(m, PAT_Locked)
  \/ Includes(m, PAT_Unlock)
IsRejected(m) ==
  \/ Includes(m, PAT_UserRejected)
  \/ Includes(m, PAT_Rejected)

\* ClassifiedError without the final else branch: a message of no
\* category is not stored
ClassifiedError_dropsOther(m) ==
  IF IsCapabilityLost(m) THEN MSG_ConnectionLost
  ELSE IF IsLocked(m) THEN MSG_WalletLocked
  ELSE IF IsRejected(m) THEN MSG_UserRejected
  ELSE Null

\* the message handleError stores with setError
ClassifiedError(m) ==
  IF IsCapabilityLost(m) THEN MSG_ConnectionLost
  ELSE IF IsLocked(m) THEN MSG_WalletLocked
  ELSE IF IsRejected(m) THEN MSG_UserRejected
  ELSE m

\* handleError whose capability-lost branch leaves the active account
handleError_keepsKey(err, defaultMessage) ==
  LET m == ErrorMessage(err, defaultMessage) IN
  /\ error' = ClassifiedError(m)
  /\ isConnected' = IF IsCapabilityLost(m) THEN FALSE ELSE isConnected
  /\ publicKey' = publicKey
  /\ accounts' = IF IsCapabilityLost(m) THEN <<>> ELSE accounts

\* handleError that drops the connection for a locked wallet too
handleError_lockedResets(err, defaultMessage) ==
  LET m == ErrorMessage(err, defaultMessage)
      reset == IsCapabilityLost(m) \/ IsLocked(m)
  IN
  /\ error' = ClassifiedError(m)
  /\ isConnected' = IF reset THEN FALSE ELSE isConnected
  /\ publicKey' = IF reset THEN Null ELSE publicKey
  /\ accounts' = IF reset THEN <<>> ELSE accounts

\* the state change of handleError(err, defaultMessage)
handleError(err, defaultMessage) ==
  LET m == ErrorMessage(err, defaultMessage) IN
  /\ error' = ClassifiedError(m)
  /\ isConnected' = IF IsCapabilityLost(m) THEN FALSE ELSE isConnected
  /\ publicKey' = IF IsCapabilityLost(m) THEN Null ELSE publicKey
  /\ accounts' = IF IsCapabilityLost(m) THEN <<>> ELSE accounts

\* onError?.(errorMessage), the last statement of handleError
OnError(err, defaultMessage) ==
  Callback("onError", <<ErrorMessage(err, defaultMessage)>>)

(* ------------------------- auto-connect effect ------------------------ *)
\* The effect depends on [autoConnect, provider, userDisconnected].  When a
\* step changes a dependency the cleanup clears the pending timeout and
\* the effect body runs again with the new values.
AutoDepsChanged(p2, ud2) ==
  p2 # provider \/ ud2 # userDisconnected
\* AutoTimerAfter without the !userDisconnected condition
AutoTimerAfter_ignoreFlag(p2, ud2) ==
  IF AutoDepsChanged(p2, ud2)
  THEN autoConnect /\ p2 # Null
  ELSE autoTimer
AutoTimerAfter(p2, ud2) ==
  IF AutoDepsChanged(p2, ud2)
  THEN autoConnect /\ p2 # Null /\ ~ud2
  ELSE autoTimer
AutoEffectOut(p2, ud2) ==
  IF AutoDepsChanged(p2, ud2) /\ AutoTimerAfter(p2, ud2)
  THEN <<Timeout("autoConnect", AutoConnectDelayMs)>>
  ELSE <<>>

(* ------------------------------ discovery ----------------------------- *)
\* ShouldRetry without the !initializedRef.current condition
ShouldRetry_afterFound(initializedNow) ==
  retryCount < maxRetries

\* !initializedRef.current && retryCount < maxRetries
ShouldRetry(initializedNow) ==
  ~initializedNow /\ retryCount < maxRetries

\* tryInitialize without initializedRef: every attempt examines
\* window.banano and retries are limited by retryCount alone
tryInitialize_unguarded ==
  LET found == windowBanano
      retry == retryCount < maxRetries
  IN
  /\ examined' = examined + 1
  /\ initialized' = (initialized \/ found)
  /\ provider' = IF found THEN Banano ELSE provider
  /\ isInstalled' = found
  /\ listeners' = IF found
                  THEN [e \in DOMAIN listeners |-> listeners[e] + 1]
                  ELSE listeners
  /\ retryCount' = IF retry THEN retryCount + 1 ELSE retryCount
  /\ pollTimer' = retry
  /\ autoTimer' = AutoTimerAfter(provider', userDisconnected)
  /\ out' = <<Invoke("tryInitialize", <<TRUE>>)>>
            \o (IF retry THEN <<Timeout("tryInitialize", PollDelayMs)>> ELSE <<>>)
            \o AutoEffectOut(provider', userDisconnected)
  /\ UNCHANGED <<extVars, connVars, isConnecting, error, userDisconnected,
                 cacheVars, autoConnect, pending, now, everDisconnected>>

\* initializeProvider() followed by the retry decision of tryInitialize()
tryInitialize ==
  LET examine == ~initialized
      found == examine /\ windowBanano
      init2 == initialized \/ found
      retry == ShouldRetry(init2)
  IN
  /\ examined' = IF examine THEN examined + 1 ELSE examined
  /\ initialized' = init2
  /\ provider' = IF found THEN Banano ELSE provider
  /\ isInstalled' = IF found THEN TRUE ELSE IF examine THEN FALSE ELSE isInstalled
  /\ listeners' = IF found
                  THEN [e \in DOMAIN listeners |-> listeners[e] + 1]
                  ELSE listeners
  /\ retryCount' = IF retry THEN retryCount + 1 ELSE retryCount
  /\ pollTimer' = retry
  /\ autoTimer' = AutoTimerAfter(provider', userDisconnected)
  /\ out' = <<Invoke("tryInitialize", <<examine>>)>>
            \o (IF retry THEN <<Timeout("tryInitialize", PollDelayMs)>> ELSE <<>>)
            \o AutoEffectOut(provider', userDisconnected)
  /\ UNCHANGED <<extVars, connVars, isConnecting, error, userDisconnected,
                 cacheVars, autoConnect, pending, now, everDisconnected>>

\* the initialization effect runs once, on mount
Mount ==
  /\ ~mounted
  /\ mounted' = TRUE
  /\ tryInitialize

\* the timeout set by tryInitialize fires
PollFire ==
  /\ pollTimer
  /\ UNCHANGED mounted
  /\ tryInitialize

\* the extension's content script defines window.banano
Inject ==
  /\ ~windowBanano
  /\ windowBanano' = TRUE
  /\ provConnected' \in BOOLEAN
  /\ out' = <<>>
  /\ UNCHANGED <<discVars, provider, connVars, isConnecting, error,
                 userDisconnected, cacheVars, autoConnect, autoTimer, pending,
                 now, everDisconnected>>

\* time passes
Tick ==
  /\ now + TickMs <= MaxTime
  /\ now' = now + TickMs
  /\ out' = <<>>
  /\ UNCHANGED <<extVars, discVars, provider, connVars, isConnecting, error,
                 userDisconnected, cacheVars, autoConnect, autoTimer, pending,
                 everDisconnected>>

(* -------------------------- lifecycle events -------------------------- *)
\* EventAccounts that takes an empty list for an absent one
EventAccounts_emptyAsAbsent(pk, accs) ==
  IF accs = <<>> \/ accs[1] = <<>> THEN <<pk>> ELSE accs[1]

\* data.accounts || [data.publicKey]; accs is <<>> when the event carries no
\* accounts field and <<list>> when it carries list (an empty list is truthy)
EventAccounts(pk, accs) ==
  IF accs = <<>> THEN <<pk>> ELSE accs[1]

\* window.banano.on('connect', ...) handler
OnConnect(pk, accs) ==
  /\ listeners.connect > 0
  /\ provConnected' = TRUE
  /\ isConnected' = TRUE
  /\ publicKey' = pk
  /\ accounts' = EventAccounts(pk, accs)
  /\ userDisconnected' = FALSE
  /\ error' = Null
  /\ cache' = EmptyMap
  /\ autoTimer' = AutoTimerAfter(provider, FALSE)
  /\ out' = <<Event("connect", <<pk, accs>>), Callback("onConnect", <<pk>>)>>
            \o AutoEffectOut(provider, FALSE)
  /\ UNCHANGED <<windowBanano, discVars, provider, isConnecting, inflight,
                 autoConnect, pending, now, everDisconnected>>

\* OnDisconnect that empties the in-flight registry together with the cache
OnDisconnect_clearsRegistry ==
  /\ listeners.disconnect > 0
  /\ provConnected' = FALSE
  /\ isConnected' = FALSE
  /\ publicKey' = Null
  /\ accounts' = <<>>
  /\ cache' = EmptyMap
  /\ inflight' = EmptyMap
  /\ pending' = [s \in DOMAIN pending |->
                   IF pending[s].method = "getAccountInfo"
                      /\ pending[s].args[1] = publicKey
                   THEN [pending[s] EXCEPT !.disconnectedSince = TRUE]
                   ELSE pending[s]]
  /\ out' = <<Event("disconnect", <<>>), Callback("onDisconnect", <<>>)>>
  /\ UNCHANGED <<windowBanano, discVars, provider, isConnecting, error,
                 userDisconnected, autoConnect, autoTimer, now,
                 everDisconnected>>

\* OnDisconnect that also clears the error, as the connect handler does
OnDisconnect_clearsError ==
  /\ listeners.disconnect > 0
  /\ provConnected' = FALSE
  /\ isConnected' = FALSE
  /\ publicKey' = Null
  /\ accounts' = <<>>
  /\ cache' = EmptyMap
  /\ error' = Null
  /\ pending' = [s \in DOMAIN pending |->
                   IF pending[s].method = "getAccountInfo"
                      /\ pending[s].args[1] = publicKey
                   THEN [pending[s] EXCEPT !.disconnectedSince = TRUE]
                   ELSE pending[s]]
  /\ out' = <<Event("disconnect", <<>>), Callback("onDisconnect", <<>>)>>
  /\ UNCHANGED <<windowBanano, discVars, provider, isConnecting,
                 userDisconnected, inflight, autoConnect, autoTimer, now,
                 everDisconnected>>

\* window.banano.on('disconnect', ...) handler
OnDisconnect ==
  /\ listeners.disconnect > 0
  /\ provConnected' = FALSE
  /\ isConnected' = FALSE
  /\ publicKey' = Null
  /\ accounts' = <<>>
  /\ cache' = EmptyMap
  /\ pending' = [s \in DOMAIN pending |->
                   IF pending[s].method = "getAccountInfo"
                      /\ pending[s].args[1] = publicKey
                   THEN [pending[s] EXCEPT !.disconnectedSince = TRUE]
                   ELSE pending[s]]
  /\ out' = <<Event("disconnect", <<>>), Callback("onDisconnect", <<>>)>>
  /\ UNCHANGED <<windowBanano, discVars, provider, isConnecting, error,
                 userDisconnected, inflight, autoConnect, autoTimer, now,
                 everDisconnected>>

\* OnAccountChanged that keeps a non-empty account list
OnAccountChanged_keepsAccounts(newPublicKey) ==
  /\ listeners.accountChanged > 0
  /\ provConnected' = TRUE
  /\ isConnected' = TRUE
  /\ publicKey' = newPublicKey
  /\ accounts' = IF accounts = <<>> THEN <<newPublicKey>> ELSE accounts
  /\ cache' = EmptyMap
  /\ out' = <<Event("accountChanged", <<newPublicKey>>),
              Callback("onConnect", <<newPublicKey>>)>>
  /\ UNCHANGED <<windowBanano, discVars, provider, isConnecting, error,
                 userDisconnected, inflight, autoConnect, autoTimer, pending,
                 now, everDisconnected>>

\* window.banano.on('accountChanged', ...) handler
OnAccountChanged(newPublicKey) ==
  /\ listeners.accountChanged > 0
  /\ provConnected' = TRUE
  /\ isConnected' = TRUE
  /\ publicKey' = newPublicKey
  /\ accounts' = <<newPublicKey>>
  /\ cache' = EmptyMap
  /\ out' = <<Event("accountChanged", <<newPublicKey>>),
              Callback("onConnect", <<newPublicKey>>)>>
  /\ UNCHANGED <<windowBanano, discVars, provider, isConnecting, error,
                 userDisconnected, inflight, autoConnect, autoTimer, pending,
                 now, everDisconnected>>

(* ------------------------- provider promises -------------------------- *)
\* A pending provider promise with the continuation that awaits it: op is
\* the wrapper that awaits, method and args the provider call, pk, to and
\* amount the values the wrapper's closure holds, waiters the wrapper calls
\* awaiting the promise (more than one only for getAccountInfo).
\* Three fields only record history: flagAtCall is the user-disconnected
\* flag at an explicit connect(), disconnectedSince that a disconnect event
\* was handled while the promise was pending and its target (args[1]) was
\* the active account, joinedAfter that a wrapper call joined the promise
\* after such an event.
Request(op, method, args, pk, to, amount) ==
  [op |-> op, method |-> method, args |-> args, pk |-> pk, to |-> to,
   amount |-> amount, waiters |-> <<op>>,
   flagAtCall |-> (op = "connect" /\ userDisconnected),
   disconnectedSince |-> FALSE, joinedAfter |-> FALSE]

FreeIds ==
  (1..MaxPending) \ DOMAIN pending
NewId ==
  Min(FreeIds)

Settled(s, outcome, value) ==
  [kind |-> "settle", name |-> pending[s].method,
   arg |-> <<pending[s], outcome, value>>]

(* ------------------------------ connect ------------------------------- *)
\* NoProvider that looks at window.banano instead of the handle held
NoProvider_looksAtWindow ==
  ~windowBanano
\* if (!provider)
NoProvider ==
  provider = Null

\* ConnectOptions that always asks for a trusted-only connection
ConnectOptions_trusted(onlyIfTrusted) ==
  [onlyIfTrusted |-> TRUE]
ConnectOptions(onlyIfTrusted) ==
  [onlyIfTrusted |-> onlyIfTrusted]

\* connect with setIsConnecting(true) before the test for a provider
connect_flagFirst ==
  /\ mounted
  /\ isConnecting' = TRUE
  /\ IF NoProvider
     THEN /\ handleError(ERR_NotInstalled, DEF_NotFound)
          /\ out' = <<Invoke("connect", <<>>),
                      OnError(ERR_NotInstalled, DEF_NotFound),
                      Return("connect", <<>>)>>
          /\ UNCHANGED <<userDisconnected, autoTimer, pending>>
     ELSE /\ FreeIds # {}
          /\ error' = Null
          /\ userDisconnected' = FALSE
          /\ autoTimer' = AutoTimerAfter(provider, FALSE)
          /\ pending' = MapSet(pending, NewId,
                 Request("connect", "connect", <<ConnectOptions(FALSE)>>,
                         Null, EmptyString, EmptyString))
          /\ out' = <<Invoke("connect", <<>>),
                      Call("connect", <<ConnectOptions(FALSE)>>)>>
                    \o AutoEffectOut(provider, FALSE)
          /\ UNCHANGED connVars
  /\ UNCHANGED <<extVars, discVars, provider, cacheVars, autoConnect, now,
                 everDisconnected>>

\* connect without setUserDisconnected(false)
connect_keepsFlag ==
  /\ mounted
  /\ IF NoProvider
     THEN /\ handleError(ERR_NotInstalled, DEF_NotFound)
          /\ out' = <<Invoke("connect", <<>>),
                      OnError(ERR_NotInstalled, DEF_NotFound),
                      Return("connect", <<>>)>>
          /\ UNCHANGED <<isConnecting, userDisconnected, autoTimer, pending>>
     ELSE /\ FreeIds # {}
          /\ isConnecting' = TRUE
          /\ error' = Null
          /\ pending' = MapSet(pending, NewId,
                 Request("connect", "connect", <<ConnectOptions(FALSE)>>,
                         Null, EmptyString, EmptyString))
          /\ out' = <<Invoke("connect", <<>>),
                      Call("connect", <<ConnectOptions(FALSE)>>)>>
          /\ UNCHANGED <<connVars, userDisconnected, autoTimer>>
  /\ UNCHANGED <<extVars, discVars, provider, cacheVars, autoConnect, now,
                 everDisconnected>>

\* connect without clearError()
connect_keepsError ==
  /\ mounted
  /\ IF NoProvider
     THEN /\ handleError(ERR_NotInstalled, DEF_NotFound)
          /\ out' = <<Invoke("connect", <<>>),
                      OnError(ERR_NotInstalled, DEF_NotFound),
                      Return("connect", <<>>)>>
          /\ UNCHANGED <<isConnecting, userDisconnected, autoTimer, pending>>
     ELSE /\ FreeIds # {}
          /\ isConnecting' = TRUE
          /\ userDisconnected' = FALSE
          /\ autoTimer' = AutoTimerAfter(provider, FALSE)
          /\ pending' = MapSet(pending, NewId,
                 Request("connect", "connect", <<ConnectOptions(FALSE)>>,
                         Null, EmptyString, EmptyString))
          /\ out' = <<Invoke("connect", <<>>),
                      Call("connect", <<ConnectOptions(FALSE)>>)>>
                    \o AutoEffectOut(provider, FALSE)
          /\ UNCHANGED <<error, connVars>>
  /\ UNCHANGED <<extVars, discVars, provider, cacheVars, autoConnect, now,
                 everDisconnected>>

connect ==
  /\ mounted
  /\ IF NoProvider
     THEN /\ handleError(ERR_NotInstalled, DEF_NotFound)
          /\ out' = <<Invoke("connect", <<>>),
                      OnError(ERR_NotInstalled, DEF_NotFound),
                      Return("connect", <<>>)>>
          /\ UNCHANGED <<isConnecting, userDisconnected, autoTimer, pending>>
     ELSE /\ FreeIds # {}
          /\ isConnecting' = TRUE
          /\ error' = Null
          /\ userDisconnected' = FALSE
          /\ autoTimer' = AutoTimerAfter(provider, FALSE)
          /\ pending' = MapSet(pending, NewId,
                 Request("connect", "connect", <<ConnectOptions(FALSE)>>,
                         Null, EmptyString, EmptyString))
          /\ out' = <<Invoke("connect", <<>>),
                      Call("connect", <<ConnectOptions(FALSE)>>)>>
                    \o AutoEffectOut(provider, FALSE)
          /\ UNCHANGED connVars
  /\ UNCHANGED <<extVars, discVars, provider, cacheVars, autoConnect, now,
                 everDisconnected>>

\* SettleConnect with setIsConnecting(false) on the success path only
SettleConnect_successOnly(s, err) ==
  /\ s \in DOMAIN pending
  /\ pending[s].op = "connect"
  /\ pending' = MapDelete(pending, s)
  /\ isConnecting' = IF err = Null THEN FALSE ELSE isConnecting
  /\ IF err = Null
     THEN /\ out' = <<Settled(s, "resolve", <<>>), Return("connect", <<>>)>>
          /\ UNCHANGED <<error, connVars>>
     ELSE /\ handleError(err, DEF_Connect)
          /\ out' = <<Settled(s, "reject", <<err>>),
                      OnError(err, DEF_Connect), Return("connect", <<>>)>>
  /\ UNCHANGED <<extVars, discVars, provider, userDisconnected, cacheVars,
                 autoConnect, autoTimer, now, everDisconnected>>

\* provider.connect({onlyIfTrusted: false}) settles
SettleConnect(s, err) ==
  /\ s \in DOMAIN pending
  /\ pending[s].op = "connect"
  /\ pending' = MapDelete(pending, s)
  /\ isConnecting' = FALSE
  /\ IF err = Null
     THEN /\ out' = <<Settled(s, "resolve", <<>>), Return("connect", <<>>)>>
          /\ UNCHANGED <<error, connVars>>
     ELSE /\ handleError(err, DEF_Connect)
          /\ out' = <<Settled(s, "reject", <<err>>),
                      OnError(err, DEF_Connect), Return("connect", <<>>)>>
  /\ UNCHANGED <<extVars, discVars, provider, userDisconnected, cacheVars,
                 autoConnect, autoTimer, now, everDisconnected>>

(* ----------------------------- disconnect ----------------------------- *)
\* disconnect that resets the connection state itself
disconnect_clearsState ==
  /\ mounted
  /\ IF NoProvider
     THEN /\ out' = <<Invoke("disconnect", <<>>), Return("disconnect", <<>>)>>
          /\ UNCHANGED <<userDisconnected, autoTimer, pending, everDisconnected,
                         connVars, cacheVars>>
     ELSE /\ FreeIds # {}
          /\ userDisconnected' = TRUE
          /\ everDisconnected' = TRUE
          /\ isConnected' = FALSE
          /\ publicKey' = Null
          /\ accounts' = <<>>
          /\ cache' = EmptyMap
          /\ inflight' = inflight
          /\ autoTimer' = AutoTimerAfter(provider, TRUE)
          /\ pending' = MapSet(pending, NewId,
                 Request("disconnect", "disconnect", <<>>, Null,
                         EmptyString, EmptyString))
          /\ out' = <<Invoke("disconnect", <<>>), Call("disconnect", <<>>)>>
                    \o AutoEffectOut(provider, TRUE)
  /\ UNCHANGED <<extVars, discVars, provider, isConnecting, error,
                 autoConnect, now>>

disconnect ==
  /\ mounted
  /\ IF NoProvider
     THEN /\ out' = <<Invoke("disconnect", <<>>), Return("disconnect", <<>>)>>
          /\ UNCHANGED <<userDisconnected, autoTimer, pending, everDisconnected>>
     ELSE /\ FreeIds # {}
          /\ userDisconnected' = TRUE
          /\ everDisconnected' = TRUE
          /\ autoTimer' = AutoTimerAfter(provider, TRUE)
          /\ pending' = MapSet(pending, NewId,
                 Request("disconnect", "disconnect", <<>>, Null,
                         EmptyString, EmptyString))
          /\ out' = <<Invoke("disconnect", <<>>), Call("disconnect", <<>>)>>
                    \o AutoEffectOut(provider, TRUE)
  /\ UNCHANGED <<extVars, discVars, provider, connVars, isConnecting, error,
                 cacheVars, autoConnect, now>>

\* provider.disconnect() settles
SettleDisconnect(s, err) ==
  /\ s \in DOMAIN pending
  /\ pending[s].op = "disconnect"
  /\ pending' = MapDelete(pending, s)
  /\ IF err = Null
     THEN /\ out' = <<Settled(s, "resolve", <<>>), Return("disconnect", <<>>)>>
          /\ UNCHANGED <<error, connVars>>
     ELSE /\ handleError(err, DEF_Disconnect)
          /\ out' = <<Settled(s, "reject", <<err>>),
                      OnError(err, DEF_Disconnect), Return("disconnect", <<>>)>>
  /\ UNCHANGED <<extVars, discVars, provider, isConnecting, userDisconnected,
                 cacheVars, autoConnect, autoTimer, now, everDisconnected>>

(* --------------------------- auto-connect ----------------------------- *)
\* AutoConnectFire that does not look at provider.isConnected
AutoConnectFire_always ==
  /\ autoTimer
  /\ autoTimer' = FALSE
  /\ IF provider # Null
     THEN /\ FreeIds # {}
          /\ pending' = MapSet(pending, NewId,
                 Request("autoConnect", "connect", <<ConnectOptions(TRUE)>>,
                         Null, EmptyString, EmptyString))
          /\ out' = <<Invoke("autoConnect", <<>>),
                      Call("connect", <<ConnectOptions(TRUE)>>)>>
     ELSE /\ out' = <<Invoke("autoConnect", <<>>)>>
          /\ UNCHANGED pending
  /\ UNCHANGED <<extVars, discVars, provider, connVars, isConnecting, error,
                 userDisconnected, cacheVars, autoConnect, now,
                 everDisconnected>>

\* the 800 ms timeout of the auto-connect effect fires
AutoConnectFire ==
  /\ autoTimer
  /\ autoTimer' = FALSE
  /\ IF provider # Null /\ ~provConnected
     THEN /\ FreeIds # {}
          /\ pending' = MapSet(pending, NewId,
                 Request("autoConnect", "connect", <<ConnectOptions(TRUE)>>,
                         Null, EmptyString, EmptyString))
          /\ out' = <<Invoke("autoConnect", <<>>),
                      Call("connect", <<ConnectOptions(TRUE)>>)>>
     ELSE /\ out' = <<Invoke("autoConnect", <<>>)>>
          /\ UNCHANGED pending
  /\ UNCHANGED <<extVars, discVars, provider, connVars, isConnecting, error,
                 userDisconnected, cacheVars, autoConnect, now,
                 everDisconnected>>

\* provider.connect({onlyIfTrusted: true}) settles; .catch(() => {})
SettleAutoConnect(s, err) ==
  /\ s \in DOMAIN pending
  /\ pending[s].op = "autoConnect"
  /\ pending' = MapDelete(pending, s)
  /\ out' = <<Settled(s, IF err = Null THEN "resolve" ELSE "reject", <<err>>)>>
  /\ UNCHANGED <<extVars, discVars, provider, connVars, isConnecting, error,
                 userDisconnected, cacheVars, autoConnect, autoTimer, now,
                 everDisconnected>>

(* --------------------------- getAccountInfo --------------------------- *)
\* Target that prefers the active account to the address argument
Target_activeFirst(address) ==
  IF Truthy(publicKey) THEN publicKey
  ELSE IF Truthy(address) THEN address
  ELSE EmptyString

\* const target = address || publicKey || ''
Target(address) ==
  IF Truthy(address) THEN address
  ELSE IF Truthy(publicKey) THEN publicKey
  ELSE EmptyString

\* Fresh with the boundary age counted as fresh
Fresh_inclusive(target) ==
  MapHas(cache, target) /\ now - cache[target].ts <= ACCOUNT_INFO_TTL_MS

\* HasExistingPromise without the registry lookup
HasExistingPromise_never(target) ==
  FALSE

\* CacheStore that files the result under the active account
CacheStore_underActive(target, data) ==
  MapSet(cache, publicKey, [ts |-> now, data |-> data])

\* CacheStore that drops the result
CacheStore_skip(target, data) ==
  cache

\* cached && Date.now() - cached.ts < ACCOUNT_INFO_TTL_MS
Fresh(target) ==
  MapHas(cache, target) /\ now - cache[target].ts < ACCOUNT_INFO_TTL_MS

\* accountInfoInFlightRef.current.get(target) is defined
HasExistingPromise(target) ==
  MapHas(inflight, target)

\* accountInfoCacheRef.current.set(target, { ts: Date.now(), data })
CacheStore(target, data) ==
  MapSet(cache, target, [ts |-> now, data |-> data])

AccountInfo(address, balance) ==
  [address |-> address, balance |-> balance]

getAccountInfo(address) ==
  /\ mounted
  /\ LET target == Target(address)
         call == Invoke("getAccountInfo", <<address>>)
     IN
     IF NoProvider
     THEN /\ handleError(ERR_NotInstalled, DEF_NotFound)
          /\ out' = <<call, OnError(ERR_NotInstalled, DEF_NotFound),
                      Return("getAccountInfo", <<>>)>>
          /\ UNCHANGED <<pending, inflight>>
     ELSE IF ~Truthy(target)
     THEN /\ out' = <<call, Return("getAccountInfo", <<>>)>>
          /\ UNCHANGED <<error, connVars, pending, inflight>>
     ELSE IF Fresh(target)
     THEN /\ out' = <<call, Return("getAccountInfo", <<cache[target].data>>)>>
          /\ UNCHANGED <<error, connVars, pending, inflight>>
     ELSE IF HasExistingPromise(target)
     THEN \* await existingPromise
          /\ Len(pending[inflight[target]].waiters) < MaxWaiters
          /\ pending' = [pending EXCEPT ![inflight[target]] =
                 [@ EXCEPT !.waiters = Append(@, "getAccountInfo"),
                           !.joinedAfter = @ \/ pending[inflight[target]].disconnectedSince]]
          /\ out' = <<call>>
          /\ UNCHANGED <<error, connVars, inflight>>
     ELSE \* provider.getAccountInfo(target), registered before it settles
          /\ FreeIds # {}
          /\ pending' = MapSet(pending, NewId,
                 Request("getAccountInfo", "getAccountInfo", <<target>>,
                         Null, EmptyString, EmptyString))
          /\ inflight' = MapSet(inflight, target, NewId)
          /\ out' = <<call, Call("getAccountInfo", <<target>>)>>
          /\ UNCHANGED <<error, connVars>>
  /\ UNCHANGED <<extVars, discVars, provider, isConnecting, userDisconnected,
                 cache, autoConnect, autoTimer, now, everDisconnected>>

\* one entry of out per wrapper call awaiting the promise; a getBalance
\* call returns info?.balance ?? null
ReturnAll(waiters, value) ==
  [i \in 1..Len(waiters) |->
     IF waiters[i] = "getBalance"
     THEN Return("getBalance", <<value[1].balance>>)
     ELSE Return(waiters[i], value)]
RejectAll(waiters, err, defaultMessage) ==
  [i \in 1..(2 * Len(waiters)) |->
     IF i % 2 = 1 THEN OnError(err, defaultMessage)
     ELSE Return(waiters[i \div 2], <<>>)]

\* provider.getAccountInfo(target) resolves with data: the .then callback
\* runs, then every awaiting wrapper call returns data
ResolveGetAccountInfo(s, data) ==
  /\ s \in DOMAIN pending
  /\ pending[s].method = "getAccountInfo"
  /\ LET target == pending[s].args[1] IN
     /\ data.address = target
     /\ cache' = CacheStore(target, data)
     /\ inflight' = MapDelete(inflight, target)
  /\ pending' = MapDelete(pending, s)
  /\ out' = <<Settled(s, "resolve", <<data>>)>>
            \o ReturnAll(pending[s].waiters, <<data>>)
  /\ UNCHANGED <<extVars, discVars, provider, connVars, isConnecting, error,
                 userDisconnected, autoConnect, autoTimer, now,
                 everDisconnected>>

\* RejectGetAccountInfo whose .catch callback leaves the registry entry
RejectGetAccountInfo_keepsEntry(s, err) ==
  /\ s \in DOMAIN pending
  /\ pending[s].method = "getAccountInfo"
  /\ inflight' = inflight
  /\ pending' = MapDelete(pending, s)
  /\ handleError(err, DEF_GetAccountInfo)
  /\ out' = <<Settled(s, "reject", <<err>>)>>
            \o RejectAll(pending[s].waiters, err, DEF_GetAccountInfo)
  /\ UNCHANGED <<extVars, discVars, provider, isConnecting, userDisconnected,
                 cache, autoConnect, autoTimer, now, everDisconnected>>

\* provider.getAccountInfo(target) rejects: the .catch callback runs, then
\* every awaiting wrapper call handles the error and returns null
RejectGetAccountInfo(s, err) ==
  /\ s \in DOMAIN pending
  /\ pending[s].method = "getAccountInfo"
  /\ inflight' = MapDelete(inflight, pending[s].args[1])
  /\ pending' = MapDelete(pending, s)
  /\ handleError(err, DEF_GetAccountInfo)
  /\ out' = <<Settled(s, "reject", <<err>>)>>
            \o RejectAll(pending[s].waiters, err, DEF_GetAccountInfo)
  /\ UNCHANGED <<extVars, discVars, provider, isConnecting, userDisconnected,
                 cache, autoConnect, autoTimer, now, everDisconnected>>

(* --------------------------- sendTransaction -------------------------- *)
\* ResolutionFailed that accepts every resolution
ResolutionFailed_never(resolvedAddress) ==
  FALSE

\* !resolvedAddress
ResolutionFailed(resolvedAddress) ==
  ~Truthy(resolvedAddress)

\* LooksLikeBNS that looks for 'ban' without the dot
LooksLikeBNS_noDot(to) ==
  Includes(to, <<"b","a","n">>)

\* to.includes('.ban') || to.includes('.banano')
LooksLikeBNS(to) ==
  Includes(to, PAT_DotBan) \/ Includes(to, PAT_DotBanano)

sendTransaction(to, amount) ==
  /\ mounted
  /\ LET call == Invoke("sendTransaction", <<to, amount>>) IN
     IF NoProvider
     THEN /\ handleError(ERR_NotInstalled, DEF_NotFound)
          /\ out' = <<call, OnError(ERR_NotInstalled, DEF_NotFound),
                      Return("sendTransaction", <<>>)>>
          /\ UNCHANGED pending
     ELSE IF ~Truthy(publicKey)
     THEN /\ handleError(ERR_NoAccount, DEF_ConnectFirst)
          /\ out' = <<call, OnError(ERR_NoAccount, DEF_ConnectFirst),
                      Return("sendTransaction", <<>>)>>
          /\ UNCHANGED pending
     ELSE IF LooksLikeBNS(to)
     THEN /\ FreeIds # {}
          /\ pending' = MapSet(pending, NewId,
                 Request("sendTransaction", "resolveBNS", <<to>>, publicKey,
                         to, amount))
          /\ out' = <<call, Call("resolveBNS", <<to>>)>>
          /\ UNCHANGED <<error, connVars>>
     ELSE /\ FreeIds # {}
          /\ pending' = MapSet(pending, NewId,
                 Request("sendTransaction", "sendTransaction",
                         <<publicKey, to, amount>>, publicKey, to, amount))
          /\ out' = <<call, Call("sendTransaction", <<publicKey, to, amount>>)>>
          /\ UNCHANGED <<error, connVars>>
  /\ UNCHANGED <<extVars, discVars, provider, isConnecting, userDisconnected,
                 cacheVars, autoConnect, autoTimer, now, everDisconnected>>

\* ResolveBNSForSend that sends from the account active at the resolution
ResolveBNSForSend_currentKey(s, resolvedAddress) ==
  /\ s \in DOMAIN pending
  /\ pending[s].op = "sendTransaction"
  /\ pending[s].method = "resolveBNS"
  /\ LET r == pending[s]
         notResolved == ERR_ResolvePrefix \o r.to
     IN
     IF ResolutionFailed(resolvedAddress)
     THEN /\ handleError(notResolved, DEF_BNSFailed)
          /\ pending' = MapDelete(pending, s)
          /\ out' = <<Settled(s, "resolve", <<resolvedAddress>>),
                      OnError(notResolved, DEF_BNSFailed),
                      Return("sendTransaction", <<>>)>>
     ELSE /\ pending' = [pending EXCEPT ![s] =
                 [r EXCEPT !.method = "sendTransaction",
                           !.args = <<publicKey, resolvedAddress, r.amount>>]]
          /\ out' = <<Settled(s, "resolve", <<resolvedAddress>>),
                      Call("sendTransaction",
                           <<publicKey, resolvedAddress, r.amount>>)>>
          /\ UNCHANGED <<error, connVars>>
  /\ UNCHANGED <<extVars, discVars, provider, isConnecting, userDisconnected,
                 cacheVars, autoConnect, autoTimer, now, everDisconnected>>

\* provider.resolveBNS(to), awaited by sendTransaction, resolves
ResolveBNSForSend(s, resolvedAddress) ==
  /\ s \in DOMAIN pending
  /\ pending[s].op = "sendTransaction"
  /\ pending[s].method = "resolveBNS"
  /\ LET r == pending[s]
         notResolved == ERR_ResolvePrefix \o r.to
     IN
     IF ResolutionFailed(resolvedAddress)
     THEN /\ handleError(notResolved, DEF_BNSFailed)
          /\ pending' = MapDelete(pending, s)
          /\ out' = <<Settled(s, "resolve", <<resolvedAddress>>),
                      OnError(notResolved, DEF_BNSFailed),
                      Return("sendTransaction", <<>>)>>
     ELSE /\ pending' = [pending EXCEPT ![s] =
                 [r EXCEPT !.method = "sendTransaction",
                           !.args = <<r.pk, resolvedAddress, r.amount>>]]
          /\ out' = <<Settled(s, "resolve", <<resolvedAddress>>),
                      Call("sendTransaction",
                           <<r.pk, resolvedAddress, r.amount>>)>>
          /\ UNCHANGED <<error, connVars>>
  /\ UNCHANGED <<extVars, discVars, provider, isConnecting, userDisconnected,
                 cacheVars, autoConnect, autoTimer, now, everDisconnected>>

\* provider.resolveBNS(to), awaited by sendTransaction, rejects
RejectBNSForSend(s, err) ==
  /\ s \in DOMAIN pending
  /\ pending[s].op = "sendTransaction"
  /\ pending[s].method = "resolveBNS"
  /\ LET def == ERR_ResolvePrefix \o pending[s].to IN
     /\ handleError(err, def)
     /\ out' = <<Settled(s, "reject", <<err>>), OnError(err, def),
                 Return("sendTransaction", <<>>)>>
  /\ pending' = MapDelete(pending, s)
  /\ UNCHANGED <<extVars, discVars, provider, isConnecting, userDisconnected,
                 cacheVars, autoConnect, autoTimer, now, everDisconnected>>

\* provider.sendTransaction(publicKey, resolvedAddress, amount) settles
SettleSendTransaction(s, hash, err) ==
  /\ s \in DOMAIN pending
  /\ pending[s].op = "sendTransaction"
  /\ pending[s].method = "sendTransaction"
  /\ pending' = MapDelete(pending, s)
  /\ IF err = Null
     THEN /\ out' = <<Settled(s, "resolve", <<hash>>),
                      Return("sendTransaction", <<hash>>)>>
          /\ UNCHANGED <<error, connVars>>
     ELSE /\ handleError(err, DEF_SendTransaction)
          /\ out' = <<Settled(s, "reject", <<err>>),
                      OnError(err, DEF_SendTransaction),
                      Return("sendTransaction", <<>>)>>
  /\ UNCHANGED <<extVars, discVars, provider, isConnecting, userDisconnected,
                 cacheVars, autoConnect, autoTimer, now, everDisconnected>>

(* ----------------------------- getAccounts ---------------------------- *)
\* account lists provider.getAccounts() resolves with
ProviderAccounts ==
  {<<>>, <<ADDR_1>>, <<ADDR_1, ADDR_2>>}

getAccounts ==
  /\ mounted
  /\ LET call == Invoke("getAccounts", <<>>) IN
     IF NoProvider
     THEN /\ handleError(ERR_NotInstalled, DEF_NotFound)
          /\ out' = <<call, OnError(ERR_NotInstalled, DEF_NotFound),
                      Return("getAccounts", << <<>> >>)>>
          /\ UNCHANGED pending
     ELSE /\ FreeIds # {}
          /\ pending' = MapSet(pending, NewId,
                 Request("getAccounts", "getAccounts", <<>>, Null,
                         EmptyString, EmptyString))
          /\ out' = <<call, Call("getAccounts", <<>>)>>
          /\ UNCHANGED <<error, connVars>>
  /\ UNCHANGED <<extVars, discVars, provider, isConnecting, userDisconnected,
                 cacheVars, autoConnect, autoTimer, now, everDisconnected>>

\* SettleGetAccounts whose catch also empties the account list
SettleGetAccounts_emptiesOnFailure(s, list, err) ==
  /\ s \in DOMAIN pending
  /\ pending[s].op = "getAccounts"
  /\ pending' = MapDelete(pending, s)
  /\ IF err = Null
     THEN /\ accounts' = list
          /\ out' = <<Settled(s, "resolve", <<list>>),
                      Return("getAccounts", <<list>>)>>
          /\ UNCHANGED <<error, isConnected, publicKey>>
     ELSE /\ error' = ClassifiedError(ErrorMessage(err, DEF_GetAccounts))
          /\ isConnected' = IF IsCapabilityLost(ErrorMessage(err, DEF_GetAccounts))
                            THEN FALSE ELSE isConnected
          /\ publicKey' = IF IsCapabilityLost(ErrorMessage(err, DEF_GetAccounts))
                          THEN Null ELSE publicKey
          /\ accounts' = <<>>
          /\ out' = <<Settled(s, "reject", <<err>>),
                      OnError(err, DEF_GetAccounts),
                      Return("getAccounts", << <<>> >>)>>
  /\ UNCHANGED <<extVars, discVars, provider, isConnecting, userDisconnected,
                 cacheVars, autoConnect, autoTimer, now, everDisconnected>>

\* provider.getAccounts() settles
SettleGetAccounts(s, list, err) ==
  /\ s \in DOMAIN pending
  /\ pending[s].op = "getAccounts"
  /\ pending' = MapDelete(pending, s)
  /\ IF err = Null
     THEN /\ accounts' = list
          /\ out' = <<Settled(s, "resolve", <<list>>),
                      Return("getAccounts", <<list>>)>>
          /\ UNCHANGED <<error, isConnected, publicKey>>
     ELSE /\ handleError(err, DEF_GetAccounts)
          /\ out' = <<Settled(s, "reject", <<err>>),
                      OnError(err, DEF_GetAccounts),
                      Return("getAccounts", << <<>> >>)>>
  /\ UNCHANGED <<extVars, discVars, provider, isConnecting, userDisconnected,
                 cacheVars, autoConnect, autoTimer, now, everDisconnected>>

(* ----------------------------- getBalance ----------------------------- *)
\* getBalance asking the provider itself: provider.getBalance(target),
\* without the cache and the registry
getBalance_direct(address) ==
  /\ mounted
  /\ LET target == Target(address)
         call == Invoke("getBalance", <<address>>)
     IN
     IF NoProvider
     THEN /\ handleError(ERR_NotInstalled, DEF_NotFound)
          /\ out' = <<call, OnError(ERR_NotInstalled, DEF_NotFound),
                      Return("getBalance", <<>>)>>
          /\ UNCHANGED <<pending, inflight>>
     ELSE IF ~Truthy(target)
     THEN /\ out' = <<call, Return("getBalance", <<>>)>>
          /\ UNCHANGED <<error, connVars, pending, inflight>>
     ELSE /\ FreeIds # {}
          /\ pending' = MapSet(pending, NewId,
                 Request("getBalance", "getBalance", <<target>>, Null,
                         EmptyString, EmptyString))
          /\ out' = <<call, Call("getBalance", <<target>>)>>
          /\ UNCHANGED <<error, connVars, inflight>>
  /\ UNCHANGED <<extVars, discVars, provider, isConnecting, userDisconnected,
                 cache, autoConnect, autoTimer, now, everDisconnected>>

\* getBalance answers from the account-info cache or awaits
\* getAccountInfo(target); the call it awaits is recorded as a waiter
\* named getBalance on the provider.getAccountInfo promise.
getBalance(address) ==
  /\ mounted
  /\ LET target == Target(address)
         call == Invoke("getBalance", <<address>>)
     IN
     IF NoProvider
     THEN /\ handleError(ERR_NotInstalled, DEF_NotFound)
          /\ out' = <<call, OnError(ERR_NotInstalled, DEF_NotFound),
                      Return("getBalance", <<>>)>>
          /\ UNCHANGED <<pending, inflight>>
     ELSE IF ~Truthy(target)
     THEN /\ out' = <<call, Return("getBalance", <<>>)>>
          /\ UNCHANGED <<error, connVars, pending, inflight>>
     ELSE IF Fresh(target)
     THEN /\ out' = <<call, Return("getBalance", <<cache[target].data.balance>>)>>
          /\ UNCHANGED <<error, connVars, pending, inflight>>
     ELSE IF HasExistingPromise(target)
     THEN /\ Len(pending[inflight[target]].waiters) < MaxWaiters
          /\ pending' = [pending EXCEPT ![inflight[target]] =
                 [@ EXCEPT !.waiters = Append(@, "getBalance"),
                           !.joinedAfter = @ \/ pending[inflight[target]].disconnectedSince]]
          /\ out' = <<call>>
          /\ UNCHANGED <<error, connVars, inflight>>
     ELSE /\ FreeIds # {}
          /\ pending' = MapSet(pending, NewId,
                 [Request("getAccountInfo", "getAccountInfo", <<target>>,
                          Null, EmptyString, EmptyString)
                    EXCEPT !.waiters = <<"getBalance">>])
          /\ inflight' = MapSet(inflight, target, NewId)
          /\ out' = <<call, Call("getAccountInfo", <<target>>)>>
          /\ UNCHANGED <<error, connVars>>
  /\ UNCHANGED <<extVars, discVars, provider, isConnecting, userDisconnected,
                 cache, autoConnect, autoTimer, now, everDisconnected>>

(* ----------------------------- signMessage ---------------------------- *)
Messages ==
  {<<"h","i">>}
Encodings ==
  {"utf8", "hex"}
\* signatures as byte arrays (Uint8Array)
Signatures ==
  {<<0, 255>>, <<10, 16>>}

\* byte.toString(16).padStart(2, '0')
HexDigit(n) ==
  <<"0","1","2","3","4","5","6","7","8","9","a","b","c","d","e","f">>[n + 1]
ByteToHex(byte) ==
  IF byte < 16 THEN <<"0", HexDigit(byte)>>
  ELSE <<HexDigit(byte \div 16), HexDigit(byte % 16)>>
\* Array.from(signature, byte => ...).join('')
RECURSIVE SignatureToHex(_)
SignatureToHex(signature) ==
  IF signature = <<>> THEN <<>>
  ELSE ByteToHex(Head(signature)) \o SignatureToHex(Tail(signature))

signMessage(message, encoding) ==
  /\ mounted
  /\ LET call == Invoke("signMessage", <<message, encoding>>) IN
     IF NoProvider
     THEN /\ handleError(ERR_NotInstalled, DEF_NotFound)
          /\ out' = <<call, OnError(ERR_NotInstalled, DEF_NotFound),
                      Return("signMessage", <<>>)>>
          /\ UNCHANGED pending
     ELSE IF ~Truthy(publicKey)
     THEN /\ handleError(ERR_NoAccount, DEF_ConnectFirst)
          /\ out' = <<call, OnError(ERR_NoAccount, DEF_ConnectFirst),
                      Return("signMessage", <<>>)>>
          /\ UNCHANGED pending
     ELSE /\ FreeIds # {}
          /\ pending' = MapSet(pending, NewId,
                 Request("signMessage", "signMessage", <<message, encoding>>,
                         Null, EmptyString, EmptyString))
          /\ out' = <<call, Call("signMessage", <<message, encoding>>)>>
          /\ UNCHANGED <<error, connVars>>
  /\ UNCHANGED <<extVars, discVars, provider, isConnecting, userDisconnected,
                 cacheVars, autoConnect, autoTimer, now, everDisconnected>>

\* provider.signMessage(message, encoding) settles
SettleSignMessage(s, signature, err) ==
  /\ s \in DOMAIN pending
  /\ pending[s].op = "signMessage"
  /\ pending' = MapDelete(pending, s)
  /\ IF err = Null
     THEN /\ out' = <<Settled(s, "resolve", <<signature>>),
                      Return("signMessage", <<SignatureToHex(signature)>>)>>
          /\ UNCHANGED <<error, connVars>>
     ELSE /\ handleError(err, DEF_SignMessage)
          /\ out' = <<Settled(s, "reject", <<err>>),
                      OnError(err, DEF_SignMessage),
                      Return("signMessage", <<>>)>>
  /\ UNCHANGED <<extVars, discVars, provider, isConnecting, userDisconnected,
                 cacheVars, autoConnect, autoTimer, now, everDisconnected>>

(* ------------------------- verifySignedMessage ------------------------ *)
SignatureHexes ==
  {SignatureToHex(sig) : sig \in Signatures}

\* publicKeyParam || publicKey
KeyToUse(publicKeyParam) ==
  IF Truthy(publicKeyParam) THEN publicKeyParam ELSE publicKey

verifySignedMessage(message, signatureHex, publicKeyParam, encoding) ==
  /\ mounted
  /\ LET call == Invoke("verifySignedMessage",
                        <<message, signatureHex, publicKeyParam, encoding>>)
         args == <<message, signatureHex, KeyToUse(publicKeyParam), encoding>>
     IN
     IF NoProvider
     THEN /\ handleError(ERR_NotInstalled, DEF_NotFound)
          /\ out' = <<call, OnError(ERR_NotInstalled, DEF_NotFound),
                      Return("verifySignedMessage", <<>>)>>
          /\ UNCHANGED pending
     ELSE IF ~Truthy(KeyToUse(publicKeyParam))
     THEN /\ handleError(ERR_NoAccount, DEF_ConnectFirst)
          /\ out' = <<call, OnError(ERR_NoAccount, DEF_ConnectFirst),
                      Return("verifySignedMessage", <<>>)>>
          /\ UNCHANGED pending
     ELSE /\ FreeIds # {}
          /\ pending' = MapSet(pending, NewId,
                 Request("verifySignedMessage", "verifySignedMessage", args,
                         Null, EmptyString, EmptyString))
          /\ out' = <<call, Call("verifySignedMessage", args)>>
          /\ UNCHANGED <<error, connVars>>
  /\ UNCHANGED <<extVars, discVars, provider, isConnecting, userDisconnected,
                 cacheVars, autoConnect, autoTimer, now, everDisconnected>>

\* provider.verifySignedMessage(...) settles
SettleVerifySignedMessage(s, isValid, err) ==
  /\ s \in DOMAIN pending
  /\ pending[s].op = "verifySignedMessage"
  /\ pending' = MapDelete(pending, s)
  /\ IF err = Null
     THEN /\ out' = <<Settled(s, "resolve", <<isValid>>),
                      Return("verifySignedMessage", <<isValid>>)>>
          /\ UNCHANGED <<error, connVars>>
     ELSE /\ handleError(err, DEF_VerifySignedMessage)
          /\ out' = <<Settled(s, "reject", <<err>>),
                      OnError(err, DEF_VerifySignedMessage),
                      Return("verifySignedMessage", <<>>)>>
  /\ UNCHANGED <<extVars, discVars, provider, isConnecting, userDisconnected,
                 cacheVars, autoConnect, autoTimer, now, everDisconnected>>

(* ------------------------ signBlock and sendBlock --------------------- *)
Blocks ==
  {[type |-> "send", account |-> ADDR_1, link |-> ADDR_2,
    balance |-> <<"1">>]}
SignBlockResults ==
  {[signature |-> <<"0","0","f","f">>]}

signBlock(block) ==
  /\ mounted
  /\ LET call == Invoke("signBlock", <<block>>) IN
     IF NoProvider
     THEN /\ handleError(ERR_NotInstalled, DEF_NotFound)
          /\ out' = <<call, OnError(ERR_NotInstalled, DEF_NotFound),
                      Return("signBlock", <<>>)>>
          /\ UNCHANGED pending
     ELSE IF ~Truthy(publicKey)
     THEN /\ handleError(ERR_NoAccount, DEF_ConnectFirst)
          /\ out' = <<call, OnError(ERR_NoAccount, DEF_ConnectFirst),
                      Return("signBlock", <<>>)>>
          /\ UNCHANGED pending
     ELSE /\ FreeIds # {}
          /\ pending' = MapSet(pending, NewId,
                 Request("signBlock", "signBlock", <<block>>, Null,
                         EmptyString, EmptyString))
          /\ out' = <<call, Call("signBlock", <<block>>)>>
          /\ UNCHANGED <<error, connVars>>
  /\ UNCHANGED <<extVars, discVars, provider, isConnecting, userDisconnected,
                 cacheVars, autoConnect, autoTimer, now, everDisconnected>>

\* provider.signBlock(block) settles
SettleSignBlock(s, result, err) ==
  /\ s \in DOMAIN pending
  /\ pending[s].op = "signBlock"
  /\ pending' = MapDelete(pending, s)
  /\ IF err = Null
     THEN /\ out' = <<Settled(s, "resolve", <<result>>),
                      Return("signBlock", <<result>>)>>
          /\ UNCHANGED <<error, connVars>>
     ELSE /\ handleError(err, DEF_SignBlock)
          /\ out' = <<Settled(s, "reject", <<err>>),
                      OnError(err, DEF_SignBlock),
                      Return("signBlock", <<>>)>>
  /\ UNCHANGED <<extVars, discVars, provider, isConnecting, userDisconnected,
                 cacheVars, autoConnect, autoTimer, now, everDisconnected>>

sendBlock(block) ==
  /\ mounted
  /\ LET call == Invoke("sendBlock", <<block>>) IN
     IF NoProvider
     THEN /\ handleError(ERR_NotInstalled, DEF_NotFound)
          /\ out' = <<call, OnError(ERR_NotInstalled, DEF_NotFound),
                      Return("sendBlock", <<>>)>>
          /\ UNCHANGED pending
     ELSE IF ~Truthy(publicKey)
     THEN /\ handleError(ERR_NoAccount, DEF_ConnectFirst)
          /\ out' = <<call, OnError(ERR_NoAccount, DEF_ConnectFirst),
                      Return("sendBlock", <<>>)>>
          /\ UNCHANGED pending
     ELSE /\ FreeIds # {}
          /\ pending' = MapSet(pending, NewId,
                 Request("sendBlock", "sendBlock", <<block>>, Null,
                         EmptyString, EmptyString))
          /\ out' = <<call, Call("sendBlock", <<block>>)>>
          /\ UNCHANGED <<error, connVars>>
  /\ UNCHANGED <<extVars, discVars, provider, isConnecting, userDisconnected,
                 cacheVars, autoConnect, autoTimer, now, everDisconnected>>

\* provider.sendBlock(block) settles
SettleSendBlock(s, hash, err) ==
  /\ s \in DOMAIN pending
  /\ pending[s].op = "sendBlock"
  /\ pending' = MapDelete(pending, s)
  /\ IF err = Null
     THEN /\ out' = <<Settled(s, "resolve", <<hash>>),
                      Return("sendBlock", <<hash>>)>>
          /\ UNCHANGED <<error, connVars>>
     ELSE /\ handleError(err, DEF_SendBlock)
          /\ out' = <<Settled(s, "reject", <<err>>),
                      OnError(err, DEF_SendBlock),
                      Return("sendBlock", <<>>)>>
  /\ UNCHANGED <<extVars, discVars, provider, isConnecting, userDisconnected,
                 cacheVars, autoConnect, autoTimer, now, everDisconnected>>

(* ------------------------------ resolveBNS ---------------------------- *)
BNSNames ==
  {NAME_Cosmic}

resolveBNS(bnsName) ==
  /\ mounted
  /\ LET call == Invoke("resolveBNS", <<bnsName>>) IN
     IF NoProvider
     THEN /\ handleError(ERR_NotInstalled, DEF_NotFound)
          /\ out' = <<call, OnError(ERR_NotInstalled, DEF_NotFound),
                      Return("resolveBNS", <<>>)>>
          /\ UNCHANGED pending
     ELSE /\ FreeIds # {}
          /\ pending' = MapSet(pending, NewId,
                 Request("resolveBNS", "resolveBNS", <<bnsName>>, Null,
                         EmptyString, EmptyString))
          /\ out' = <<call, Call("resolveBNS", <<bnsName>>)>>
          /\ UNCHANGED <<error, connVars>>
  /\ UNCHANGED <<extVars, discVars, provider, isConnecting, userDisconnected,
                 cacheVars, autoConnect, autoTimer, now, everDisconnected>>

\* provider.resolveBNS(bnsName), awaited by the resolveBNS wrapper, settles
SettleResolveBNS(s, resolvedAddress, err) ==
  /\ s \in DOMAIN pending
  /\ pending[s].op = "resolveBNS"
  /\ pending' = MapDelete(pending, s)
  /\ LET def == ERR_ResolvePrefix \o pending[s].args[1] IN
     IF err = Null
     THEN /\ out' = <<Settled(s, "resolve", <<resolvedAddress>>),
                      Return("resolveBNS", <<resolvedAddress>>)>>
          /\ UNCHANGED <<error, connVars>>
     ELSE /\ handleError(err, def)
          /\ out' = <<Settled(s, "reject", <<err>>), OnError(err, def),
                      Return("resolveBNS", <<>>)>>
  /\ UNCHANGED <<extVars, discVars, provider, isConnecting, userDisconnected,
                 cacheVars, autoConnect, autoTimer, now, everDisconnected>>

(* ------------------------------ clearError ---------------------------- *)
\* clearError(), called by the consumer (the dismiss affordance)
clearError ==
  /\ mounted
  /\ error' = Null
  /\ out' = <<Invoke("clearError", <<>>)>>
  /\ UNCHANGED <<extVars, discVars, provider, connVars, isConnecting,
                 userDisconnected, cacheVars, autoConnect, autoTimer, pending,
                 now, everDisconnected>>

(* ---------------------------- specification --------------------------- *)
Outcomes ==
  {Null} \cup ProviderErrors
FewOutcomes ==
  {Null} \cup FewErrors

\* every action of the bridge, with every input
Next ==
  \/ Mount
  \/ PollFire
  \/ Inject
  \/ Tick
  \/ \E pk \in Addrs : \E accs \in AccountLists(pk) : OnConnect(pk, accs)
  \/ OnDisconnect
  \/ \E pk \in Addrs : OnAccountChanged(pk)
  \/ AutoConnectFire
  \/ clearError
  \/ connect
  \/ disconnect
  \/ \E a \in Addrs \cup {Undefined} : getAccountInfo(a)
  \/ \E to \in Destinations : \E amount \in Amounts : sendTransaction(to, amount)
  \/ getAccounts
  \/ \E a \in Addrs \cup {Undefined} : getBalance(a)
  \/ \E m \in Messages : \E e \in Encodings : signMessage(m, e)
  \/ \E m \in Messages : \E h \in SignatureHexes :
       \E k \in Addrs \cup {Undefined} : \E e \in Encodings :
         verifySignedMessage(m, h, k, e)
  \/ \E b \in Blocks : signBlock(b)
  \/ \E b \in Blocks : sendBlock(b)
  \/ \E n \in BNSNames : resolveBNS(n)
  \/ \E s \in 1..MaxPending :
       \/ \E l \in ProviderAccounts : \E err \in Outcomes :
            SettleGetAccounts(s, l, err)
       \/ \E sig \in Signatures : \E err \in Outcomes :
            SettleSignMessage(s, sig, err)
       \/ \E v \in BOOLEAN : \E err \in Outcomes :
            SettleVerifySignedMessage(s, v, err)
       \/ \E r \in SignBlockResults : \E err \in Outcomes :
            SettleSignBlock(s, r, err)
       \/ \E h \in Hashes : \E err \in Outcomes : SettleSendBlock(s, h, err)
       \/ \E r \in Resolutions : \E err \in Outcomes :
            SettleResolveBNS(s, r, err)
       \/ \E err \in Outcomes : SettleConnect(s, err)
       \/ \E err \in Outcomes : SettleDisconnect(s, err)
       \/ \E err \in Outcomes : SettleAutoConnect(s, err)
       \/ \E a \in Addrs : \E b \in Balances :
            ResolveGetAccountInfo(s, AccountInfo(a, b))
       \/ \E err \in ProviderErrors : RejectGetAccountInfo(s, err)
       \/ \E r \in Resolutions : ResolveBNSForSend(s, r)
       \/ \E err \in ProviderErrors : RejectBNSForSend(s, err)
       \/ \E h \in Hashes : \E err \in Outcomes : SettleSendTransaction(s, h, err)

Spec ==
  Init /\ [][Next]_vars

(***************************************************************************)
(* Scenario specifications.  Each takes the actions one part of the bridge *)
(* involves, with inputs from the smaller sets, so every behaviour of a    *)
(* scenario is a behaviour of Spec.                                        *)
(***************************************************************************)
\* the account-info cache and the in-flight registry under lifecycle events
NextCache ==
  \/ Mount
  \/ Inject
  \/ Tick
  \/ \E pk \in Addrs : \E accs \in FewLists(pk) : OnConnect(pk, accs)
  \/ OnDisconnect
  \/ \E pk \in Addrs : OnAccountChanged(pk)
  \/ \E a \in Addrs \cup {Undefined} : getAccountInfo(a)
  \/ \E s \in 1..MaxPending :
       \/ \E a \in Addrs : \E b \in Balances :
            ResolveGetAccountInfo(s, AccountInfo(a, b))
       \/ \E err \in FewErrors : RejectGetAccountInfo(s, err)

SpecCache ==
  Init /\ [][NextCache]_vars

\* explicit connect and disconnect, the auto-connect effect and the events
NextConn ==
  \/ Mount
  \/ Inject
  \/ \E pk \in Addrs : \E accs \in FewLists(pk) : OnConnect(pk, accs)
  \/ OnDisconnect
  \/ \E pk \in Addrs : OnAccountChanged(pk)
  \/ AutoConnectFire
  \/ connect
  \/ disconnect
  \/ \E s \in 1..MaxPending :
       \/ \E err \in FewOutcomes : SettleConnect(s, err)
       \/ \E err \in FewOutcomes : SettleDisconnect(s, err)
       \/ \E err \in FewOutcomes : SettleAutoConnect(s, err)

SpecConn ==
  Init /\ [][NextConn]_vars

\* sendTransaction with name resolution under lifecycle events
NextSend ==
  \/ Mount
  \/ Inject
  \/ \E pk \in Addrs : \E accs \in FewLists(pk) : OnConnect(pk, accs)
  \/ OnDisconnect
  \/ \E pk \in Addrs : OnAccountChanged(pk)
  \/ \E to \in Destinations : \E amount \in Amounts : sendTransaction(to, amount)
  \/ \E s \in 1..MaxPending :
       \/ \E r \in Resolutions : ResolveBNSForSend(s, r)
       \/ \E err \in ProviderErrors : RejectBNSForSend(s, err)
       \/ \E h \in Hashes : \E err \in FewOutcomes : SettleSendTransaction(s, h, err)

SpecSend ==
  Init /\ [][NextSend]_vars

\* discovery of window.banano, with wrappers callable at any time
NextDiscovery ==
  \/ Mount
  \/ PollFire
  \/ Inject
  \/ connect
  \/ disconnect
  \/ \E a \in OneAddr : getAccountInfo(a)
  \/ \E to \in Destinations : \E amount \in Amounts : sendTransaction(to, amount)
  \/ \E s \in 1..MaxPending :
       \/ \E err \in FewOutcomes : SettleConnect(s, err)
       \/ \E err \in FewOutcomes : SettleDisconnect(s, err)
       \/ \E a \in Addrs : \E b \in OneBalance :
            ResolveGetAccountInfo(s, AccountInfo(a, b))

SpecDiscovery ==
  Init /\ [][NextDiscovery]_vars

\* every wrapper around a discovery that finds window.banano or gives up;
\* no account becomes active here, so the wrappers that need one never
\* reach their provider call, and of the calls started after a discovery
\* that succeeded only getAccounts is settled
NextWrappers ==
  \/ Mount
  \/ PollFire
  \/ Inject
  \/ connect
  \/ disconnect
  \/ getAccounts
  \/ \E a \in OneAddr : getBalance(a)
  \/ \E a \in OneAddr : getAccountInfo(a)
  \/ \E to \in BNSNames : \E amount \in Amounts : sendTransaction(to, amount)
  \/ \E m \in Messages : signMessage(m, "utf8")
  \/ \E m \in Messages :
       verifySignedMessage(m, SignatureToHex(<<0, 255>>), Undefined, "utf8")
  \/ \E b \in Blocks : signBlock(b)
  \/ \E b \in Blocks : sendBlock(b)
  \/ \E n \in BNSNames : resolveBNS(n)
  \/ \E s \in 1..MaxPending :
       \/ \E err \in {Null, PE_Invalidated} : SettleGetAccounts(s, <<ADDR_1>>, err)

SpecWrappers ==
  Init /\ [][NextWrappers]_vars

\* the lifecycle events from every state of flag, error and cache
NextEvents ==
  \/ Mount
  \/ Inject
  \/ \E pk \in Addrs : \E accs \in AccountLists(pk) : OnConnect(pk, accs)
  \/ OnDisconnect
  \/ \E pk \in Addrs : OnAccountChanged(pk)
  \/ disconnect
  \/ \E a \in OneAddr : getAccountInfo(a)
  \/ \E s \in 1..MaxPending :
       \/ \E err \in FewOutcomes : SettleDisconnect(s, err)
       \/ \E a \in Addrs : \E b \in OneBalance :
            ResolveGetAccountInfo(s, AccountInfo(a, b))

SpecEvents ==
  Init /\ [][NextEvents]_vars

TypeOK ==
  /\ retryCount \in 0..maxRetries
  /\ DOMAIN pending \subseteq 1..MaxPending
  /\ DOMAIN cache \subseteq Addrs
\* the rejections offered where every wrapper can fail: the two
\* capability-lost messages and a rejection value without message
RejectionErrors ==
  {PE_Invalidated, PE_PortClosed, Undefined}

\* every wrapper with its provider call rejecting, between lifecycle
\* events; a wrapper is invoked here when no other provider call is
\* pending, except that getAccountInfo and getBalance can join one another
Idle ==
  pending = EmptyMap
NextErrors ==
  \/ Mount
  \/ Inject
  \/ OnConnect(ADDR_1, <<>>)
  \/ OnDisconnect
  \/ clearError
  \/ Idle /\ connect
  \/ Idle /\ disconnect
  \/ Idle /\ getAccounts
  \/ \E a \in OneAddr : getBalance(a)
  \/ \E a \in OneAddr : getAccountInfo(a)
  \/ Idle /\ \E to \in BNSNames : \E amount \in Amounts : sendTransaction(to, amount)
  \/ Idle /\ \E m \in Messages : signMessage(m, "utf8")
  \/ Idle /\ \E m \in Messages :
       verifySignedMessage(m, SignatureToHex(<<0, 255>>), Undefined, "utf8")
  \/ Idle /\ \E b \in Blocks : signBlock(b)
  \/ Idle /\ \E b \in Blocks : sendBlock(b)
  \/ Idle /\ \E n \in BNSNames : resolveBNS(n)
  \/ \E s \in 1..MaxPending :
       \/ \E err \in RejectionErrors : SettleConnect(s, err)
       \/ \E err \in RejectionErrors : SettleDisconnect(s, err)
       \/ \E err \in RejectionErrors \cup {Null} :
            SettleGetAccounts(s, <<ADDR_1, ADDR_2>>, err)
       \/ \E err \in RejectionErrors : RejectGetAccountInfo(s, err)
       \/ ResolveBNSForSend(s, ADDR_2)
       \/ \E err \in RejectionErrors : RejectBNSForSend(s, err)
       \/ \E h \in Hashes : \E err \in RejectionErrors :
            SettleSendTransaction(s, h, err)
       \/ \E err \in RejectionErrors : SettleSignMessage(s, <<0, 255>>, err)
       \/ \E err \in RejectionErrors : SettleVerifySignedMessage(s, TRUE, err)
       \/ \E r \in SignBlockResults : \E err \in RejectionErrors :
            SettleSignBlock(s, r, err)
       \/ \E h \in Hashes : \E err \in RejectionErrors : SettleSendBlock(s, h, err)
       \/ \E err \in RejectionErrors : SettleResolveBNS(s, ADDR_2, err)

SpecErrors ==
  Init /\ [][NextErrors]_vars

\* getBalance and getAccountInfo on the shared cache and in-flight registry
NextBalance ==
  \/ Mount
  \/ Inject
  \/ Tick
  \/ OnConnect(ADDR_1, <<>>)
  \/ OnDisconnect
  \/ \E a \in {ADDR_1, ADDR_2, Undefined} : getBalance(a)
  \/ \E a \in {ADDR_1, ADDR_2, Undefined} : getAccountInfo(a)
  \/ \E s \in 1..MaxPending :
       \/ \E a \in Addrs : \E b \in Balances :
            ResolveGetAccountInfo(s, AccountInfo(a, b))
       \/ RejectGetAccountInfo(s, PE_Internal)

SpecBalance ==
  Init /\ [][NextBalance]_vars

(* ---------------------------- ConnectButton --------------------------- *)
\* ConnectButton that tests error before isInstalled
ConnectButton_errorFirst(isAccountSwitching) ==
  IF Truthy(error)
  THEN [affordance |-> "dismiss", disabled |-> FALSE]
  ELSE IF ~isInstalled
  THEN [affordance |-> "install", disabled |-> FALSE]
  ELSE IF isConnected /\ Truthy(publicKey)
  THEN [affordance |-> "disconnect", disabled |-> isAccountSwitching]
  ELSE [affordance |-> "connect", disabled |-> isConnecting]

\* What ConnectButton renders from the bridge state: the install link,
\* the 'Error - Dismiss' button, the address button that disconnects or
\* the 'Connect Wallet' button.  isAccountSwitching is state of the
\* component, true for 1500 ms after a change of publicKey; it is taken
\* as arbitrary here.
ConnectButton(isAccountSwitching) ==
  IF ~isInstalled
  THEN [affordance |-> "install", disabled |-> FALSE]
  ELSE IF Truthy(error)
  THEN [affordance |-> "dismiss", disabled |-> FALSE]
  ELSE IF isConnected /\ Truthy(publicKey)
  THEN [affordance |-> "disconnect", disabled |-> isAccountSwitching]
  ELSE [affordance |-> "connect", disabled |-> isConnecting]

\* a click on the button: onClick of the affordance rendered.  onConnect
\* is clearError() followed by connect(), whose state changes are those
\* of connect(); the install link has no handler.
ClickButton ==
  \E isAccountSwitching \in BOOLEAN :
    LET button == ConnectButton(isAccountSwitching) IN
    /\ ~button.disabled
    /\ \/ button.affordance = "dismiss" /\ clearError
       \/ button.affordance = "disconnect" /\ disconnect
       \/ button.affordance = "connect" /\ connect

\* the bridge driven through the connect button, with getAccounts as an
\* action the page calls directly
NextButton ==
  \/ Mount
  \/ PollFire
  \/ Inject
  \/ \E pk \in Addrs : OnConnect(pk, <<>>)
  \/ OnDisconnect
  \/ ClickButton
  \/ getAccounts
  \/ \E s \in 1..MaxPending :
       \/ \E err \in FewOutcomes : SettleConnect(s, err)
       \/ \E err \in FewOutcomes : SettleDisconnect(s, err)
       \/ \E err \in FewOutcomes : SettleGetAccounts(s, <<ADDR_1>>, err)

SpecButton ==
  Init /\ [][NextButton]_vars

(* ------------------------- POST /verify-signature --------------------- *)
\* the validation that tests message and signature only
MissingParameters_noKey(message, signature, key) ==
  ~Truthy(message) \/ ~Truthy(signature)

\* !message || !signature || !publicKey
MissingParameters(message, signature, key) ==
  ~Truthy(message) \/ ~Truthy(signature) \/ ~Truthy(key)

\* POST of the route: one request answered.  The body is unreadable
\* (request.json() throws) or carries message, signature, publicKey and
\* origin, each absent, empty, a string or a value that is not a string;
\* headerOrigin is the Origin header or null.  converted is the outcome of
\* BananoUtil.getAccountPublicKey and verified that of
\* BananoUtil.verifyMessage: "true", "false" or "throws".
POST ==
  \E readable \in BOOLEAN,
     message \in {Undefined, EmptyString, <<"h","i">>, <<"NUMBER">>},
     signature \in {Undefined, EmptyString, <<"5","1","6">>, <<"NUMBER">>},
     key \in {Undefined, EmptyString, ADDR_1, <<"A","B">>, <<"NUMBER">>},
     origin \in {Undefined, <<"a",".","c","c">>},
     headerOrigin \in {Null, <<"b",".","c","c">>},
     converted \in {"ok", "throws"},
     verified \in {"true", "false", "throws"} :
    LET body ==
          IF readable
          THEN << [message |-> message, signature |-> signature,
                   publicKey |-> key, origin |-> origin] >>
          ELSE <<>>
        request == [body |-> body, origin |-> headerOrigin]
        IsString(v) == v \notin {Undefined, Null, <<"NUMBER">>}
        verificationOrigin ==
          IF Truthy(origin) THEN origin
          ELSE IF Truthy(headerOrigin) THEN headerOrigin
          ELSE <<"u","n","k","n","o","w","n">>
        messageToVerify ==
          <<"M","o","n","k","e","y","M","a","s","k"," ","S","i","g","n","e","d",
            " ","M","e","s","s","a","g","e",":","\n","O","r","i","g","i","n",
            ":"," ">> \o verificationOrigin \o
          <<"\n","M","e","s","s","a","g","e",":"," ">> \o message
        startsWithBan ==
          Len(key) >= 4 /\ SubSeq(key, 1, 4) = <<"b","a","n","_">>
        hexPublicKey == IF startsWithBan THEN <<"0","1">> ELSE key
        conversion ==
          IF startsWithBan
          THEN <<Call("getAccountPublicKey", <<key>>),
                 [kind |-> "result", name |-> "getAccountPublicKey",
                  arg |-> <<converted>>]>>
          ELSE <<>>
        verification ==
          <<Call("verifyMessage", <<hexPublicKey, messageToVerify, signature>>),
            [kind |-> "result", name |-> "verifyMessage", arg |-> <<verified>>]>>
        InternalError ==
          [status |-> 500,
           body |-> [error |-> "Internal server error", valid |-> FALSE]]
        Failed(text) ==
          [status |-> 200,
           body |-> [valid |-> FALSE, message |-> "Signature verification failed",
                     error |-> text]]
    IN
    /\ out' =
         <<Invoke("POST", <<request>>)>> \o
         ( IF ~readable
           THEN <<Return("POST", <<InternalError>>)>>
           ELSE IF MissingParameters(message, signature, key)
           THEN <<Return("POST",
                    << [status |-> 400,
                        body |-> [error |-> "Missing required parameters: message, signature, publicKey",
                                  valid |-> FALSE]] >>)>>
           ELSE IF ~IsString(message) \/ ~IsString(signature) \/ ~IsString(key)
           THEN <<Return("POST", <<InternalError>>)>>
           ELSE IF startsWithBan /\ converted = "throws"
           THEN conversion \o
                <<Return("POST", <<Failed("Invalid Banano address format")>>)>>
           ELSE IF verified = "throws"
           THEN conversion \o verification \o
                <<Return("POST", <<Failed("verifyError.message")>>)>>
           ELSE conversion \o verification \o
                <<Return("POST",
                    << [status |-> 200,
                        body |-> [valid |-> verified = "true",
                                  message |-> IF verified = "true"
                                              THEN "Signature verified successfully"
                                              ELSE "Signature verification failed",
                                  verifiedAt |-> "new Date().toISOString()"]] >>)>> )
    /\ UNCHANGED <<extVars, discVars, provider, connVars, isConnecting, error,
                   userDisconnected, cacheVars, autoConnect, autoTimer, pending,
                   now, everDisconnected>>

\* the route alone: it shares no state with the bridge
SpecVerify ==
  Init /\ [][POST]_vars

(* ---------------- lifecycle events between actions -------------------- *)
\* the three events in any order, with connect() and getAccounts()
\* succeeding or failing between them
NextLifecycle ==
  \/ Mount
  \/ Inject
  \/ \E pk \in Addrs : \E accs \in AccountLists(pk) : OnConnect(pk, accs)
  \/ OnDisconnect
  \/ \E pk \in Addrs : OnAccountChanged(pk)
  \/ connect
  \/ getAccounts
  \/ \E s \in 1..MaxPending :
       \/ \E err \in FewOutcomes : SettleConnect(s, err)
       \/ \E list \in ProviderAccounts : \E err \in FewOutcomes :
            SettleGetAccounts(s, list, err)

SpecLifecycle ==
  Init /\ [][NextLifecycle]_vars

(* ------------- failures that do not end the connection ---------------- *)
\* rejections of the locked, the user-rejected and of no category
BenignErrors ==
  {PE_Locked, PE_UserRejected, PE_Internal}

\* actions failing with such rejections while connected or not, with a
\* cache that getAccountInfo has filled
NextBenign ==
  \/ Mount
  \/ Inject
  \/ OnConnect(ADDR_1, <<>>)
  \/ OnDisconnect
  \/ Idle /\ connect
  \/ Idle /\ disconnect
  \/ Idle /\ getAccounts
  \/ \E a \in OneAddr : getAccountInfo(a)
  \/ Idle /\ \E to \in BNSNames : \E amount \in Amounts : sendTransaction(to, amount)
  \/ Idle /\ \E m \in Messages : signMessage(m, "utf8")
  \/ \E s \in 1..MaxPending :
       \/ \E err \in BenignErrors : SettleConnect(s, err)
       \/ \E err \in BenignErrors : SettleDisconnect(s, err)
       \/ \E err \in BenignErrors : SettleGetAccounts(s, <<ADDR_1>>, err)
       \/ \E b \in OneBalance : ResolveGetAccountInfo(s, AccountInfo(ADDR_1, b))
       \/ \E err \in BenignErrors : RejectGetAccountInfo(s, err)
       \/ \E err \in BenignErrors \cup {Undefined} : RejectBNSForSend(s, err)
       \/ \E err \in BenignErrors : SettleSignMessage(s, <<0, 255>>, err)

SpecBenign ==
  Init /\ [][NextBenign]_vars

(* ------------------- the autoConnect option of config ----------------- *)
\* the initial state with config.autoConnect given as true or false
InitAuto ==
  /\ windowBanano = FALSE
  /\ provConnected = FALSE
  /\ mounted = FALSE
  /\ initialized = FALSE
  /\ retryCount = 0
  /\ pollTimer = FALSE
  /\ examined = 0
  /\ listeners = [connect |-> 0, disconnect |-> 0, accountChanged |-> 0]
  /\ provider = Null
  /\ isInstalled = FALSE
  /\ isConnected = FALSE
  /\ isConnecting = FALSE
  /\ publicKey = Null
  /\ accounts = <<>>
  /\ error = Null
  /\ userDisconnected = FALSE
  /\ cache = EmptyMap
  /\ inflight = EmptyMap
  /\ autoConnect \in BOOLEAN
  /\ autoTimer = FALSE
  /\ pending = EmptyMap
  /\ now = 0
  /\ out = <<>>
  /\ everDisconnected = FALSE

\* connect, disconnect, the auto-connect effect and the events, with
\* autoConnect enabled or not
SpecAuto ==
  InitAuto /\ [][NextConn]_vars

(* ------------------ provider.connect calls that settle ---------------- *)
\* SpecConn in which an outstanding provider.connect call of an explicit
\* connect() settles at some time
SpecConnSettles ==
  /\ SpecConn
  /\ WF_vars(\E s \in 1..MaxPending : \E err \in FewOutcomes : SettleConnect(s, err))

(* ------------------- getAccounts in any connection state -------------- *)
\* getAccounts() resolving and rejecting while connected or not, with a
\* cache that getAccountInfo has filled
NextAccounts ==
  \/ Mount
  \/ Inject
  \/ \E pk \in Addrs : OnConnect(pk, <<>>)
  \/ OnDisconnect
  \/ getAccounts
  \/ \E a \in OneAddr : getAccountInfo(a)
  \/ \E s \in 1..MaxPending :
       \/ \E list \in ProviderAccounts : \E err \in FewOutcomes :
            SettleGetAccounts(s, list, err)
       \/ \E b \in OneBalance : ResolveGetAccountInfo(s, AccountInfo(ADDR_1, b))

SpecAccounts ==
  Init /\ [][NextAccounts]_vars


(***************************************************************************)
(*                               Properties                                *)
(***************************************************************************)
\* entry i of o is an effect of the given kind and name
IsAt(o, i, kind, name) ==
  Len(o) >= i /\ o[i].kind = kind /\ o[i].name = name
CountOf(o, kind, name) ==
  Cardinality({i \in 1..Len(o) : o[i].kind = kind /\ o[i].name = name})

\* C1: concurrent getAccountInfo(A) calls share one provider call and one
\* outcome.  At most one provider.getAccountInfo(A) promise is pending per
\* address; a provider call is only made by a wrapper call that then is
\* the promise's first waiter; and when the promise settles every waiter
\* returns the same thing: the resolved AccountInfo, or null after a
\* rejection.
C1_SingleFlight ==
  /\ \A s1 \in DOMAIN pending : \A s2 \in DOMAIN pending :
        ( /\ pending[s1].method = "getAccountInfo"
          /\ pending[s2].method = "getAccountInfo"
          /\ pending[s1].args = pending[s2].args ) => s1 = s2
  /\ \A i \in 1..Len(out) :
        (out[i].kind = "call" /\ out[i].name = "getAccountInfo") =>
          \E s \in DOMAIN pending :
            /\ pending[s].method = "getAccountInfo"
            /\ pending[s].args = out[i].arg
            /\ pending[s].waiters = <<"getAccountInfo">>
  /\ IsAt(out, 1, "settle", "getAccountInfo") =>
        LET r == out[1].arg[1]
            expected == IF out[1].arg[2] = "resolve" THEN out[1].arg[3] ELSE <<>>
        IN
        /\ CountOf(out, "return", "getAccountInfo") = Len(r.waiters)
        /\ CountOf(out, "call", "getAccountInfo") = 0
        /\ \A i \in 2..Len(out) :
              out[i].kind = "return" => out[i].arg = expected

\* two callers shared one provider call, which resolved: both got its data
C1_Witness ==
  /\ IsAt(out, 1, "settle", "getAccountInfo")
  /\ out[1].arg[2] = "resolve"
  /\ Len(out[1].arg[1].waiters) = 2
  /\ Len(out) = 3
  /\ out[2] = out[3]
  /\ out[2].arg = out[1].arg[3]

\* C2: a getAccountInfo(A) call made while A's cache entry is younger than
\* 5000 ms returns the cached data and makes no provider call; one made
\* when the entry is 5000 ms old or older, with no request for A in flight,
\* makes exactly one provider.getAccountInfo(A) call.
C2_Step ==
  \A a \in Addrs \cup {Undefined} :
    ( /\ IsAt(out', 1, "invoke", "getAccountInfo")
      /\ out'[1].arg = <<a>>
      /\ provider # Null ) =>
      LET t == IF Truthy(a) THEN a ELSE publicKey IN
      MapHas(cache, t) =>
        IF now - cache[t].ts < 5000
        THEN /\ out' = <<out'[1], Return("getAccountInfo", <<cache[t].data>>)>>
             /\ pending' = pending
        ELSE ~MapHas(inflight, t) =>
               /\ out' = <<out'[1], Call("getAccountInfo", <<t>>)>>
               /\ Cardinality(DOMAIN pending') = Cardinality(DOMAIN pending) + 1
C2_CacheTTL ==
  [][C2_Step]_vars

\* a call found A's entry exactly 5000 ms or more old and asked the provider
C2_Witness ==
  /\ IsAt(out, 1, "invoke", "getAccountInfo")
  /\ IsAt(out, 2, "call", "getAccountInfo")
  /\ MapHas(cache, out[2].arg[1])
  /\ now - cache[out[2].arg[1]].ts >= 5000

\* C3 as stated: after a disconnect event handled while getAccountInfo(A)
\* for the active account A was in flight, the resolution of that call
\* leaves no entry for A in the cache (no later call joined the request).
C3_Original ==
  ~( /\ IsAt(out, 1, "settle", "getAccountInfo")
     /\ out[1].arg[1].disconnectedSince
     /\ ~out[1].arg[1].joinedAfter
     /\ MapHas(cache, out[1].arg[1].args[1]) )

\* C3 as amended: the disconnect event empties the cache for all addresses;
\* the call that was in flight for the active account A is not aborted, and
\* when it resolves its result is stored under A with the time of the
\* resolution; when it rejects no entry for A is stored.
C3_Amended ==
  /\ IsAt(out, 1, "event", "disconnect") => cache = EmptyMap
  /\ ( IsAt(out, 1, "settle", "getAccountInfo")
       /\ out[1].arg[1].disconnectedSince ) =>
        LET t == out[1].arg[1].args[1] IN
        IF out[1].arg[2] = "resolve"
        THEN /\ MapHas(cache, t)
             /\ cache[t] = [ts |-> now, data |-> out[1].arg[3][1]]
        ELSE ~MapHas(cache, t)

\* the late result of a call made for the account since disconnected is
\* in the cache while no account is active
C3_Witness ==
  /\ IsAt(out, 1, "settle", "getAccountInfo")
  /\ out[1].arg[2] = "resolve"
  /\ out[1].arg[1].disconnectedSince
  /\ ~out[1].arg[1].joinedAfter
  /\ publicKey = Null
  /\ MapHas(cache, out[1].arg[1].args[1])

\* C4 as stated: once the user has issued disconnect(), no automatic
\* provider.connect({onlyIfTrusted: true}) is issued in the session.
C4_Original ==
  ~( /\ everDisconnected
     /\ IsAt(out, 1, "invoke", "autoConnect")
     /\ IsAt(out, 2, "call", "connect") )

\* C4 as amended: while the user-disconnected flag is true (from an explicit
\* disconnect() until an explicit connect() or a connect event clears it)
\* no auto-connect timeout is pending and no automatic
\* provider.connect({onlyIfTrusted: true}) is issued.
C4_Amended ==
  /\ userDisconnected => ~autoTimer
  /\ ( IsAt(out, 1, "invoke", "autoConnect")
       /\ IsAt(out, 2, "call", "connect") ) => ~userDisconnected

\* the user has just disconnected: the flag is set and no timeout is pending
C4_Witness ==
  /\ IsAt(out, 1, "invoke", "disconnect")
  /\ IsAt(out, 2, "call", "disconnect")
  /\ userDisconnected
  /\ ~autoTimer

\* C5: an explicit connect() with the user-disconnected flag set is not
\* blocked: it delegates provider.connect({onlyIfTrusted: false}); and the
\* provider's connect event leaves the bridge connected with the event's
\* account active.
C5_Step ==
  /\ ( /\ userDisconnected
       /\ provider # Null
       /\ IsAt(out', 1, "invoke", "connect") ) =>
        /\ IsAt(out', 2, "call", "connect")
        /\ out'[2].arg = <<[onlyIfTrusted |-> FALSE]>>
        /\ \E s \in DOMAIN pending' :
              /\ s \notin DOMAIN pending
              /\ pending'[s].method = "connect"
              /\ pending'[s].args = <<[onlyIfTrusted |-> FALSE]>>
  /\ IsAt(out', 1, "event", "connect") =>
        isConnected' /\ publicKey' = out'[1].arg[1]
C5_ConnectAfterDisconnect ==
  [][C5_Step]_vars

\* a connect() issued with the flag set is still pending when the provider
\* emits connect: the bridge is connected
C5_Witness ==
  /\ IsAt(out, 1, "event", "connect")
  /\ isConnected
  /\ publicKey = out[1].arg[1]
  /\ \E s \in DOMAIN pending :
        pending[s].op = "connect" /\ pending[s].flagAtCall

\* C6: sendTransaction to a destination containing '.ban' first calls
\* provider.resolveBNS(to) and nothing else; when the resolution is empty
\* or rejects, provider.sendTransaction is not called, an error is recorded
\* and null is returned; when it succeeds provider.sendTransaction is called
\* with the resolved address; no provider.sendTransaction call carries a
\* destination containing '.ban'.
C6_ResolveBeforeSend ==
  /\ ( /\ IsAt(out, 1, "invoke", "sendTransaction")
       /\ provider # Null
       /\ publicKey \in Addrs
       /\ Includes(out[1].arg[1], PAT_DotBan) ) =>
        out = <<out[1], Call("resolveBNS", <<out[1].arg[1]>>)>>
  /\ ( IsAt(out, 1, "settle", "resolveBNS")
       /\ out[1].arg[1].op = "sendTransaction" ) =>
        LET r == out[1].arg[1] IN
        IF out[1].arg[2] = "reject"
           \/ out[1].arg[3][1] \in {EmptyString, Null, Undefined}
        THEN /\ CountOf(out, "call", "sendTransaction") = 0
             /\ CountOf(out, "callback", "onError") = 1
             /\ error # Null
             /\ out[Len(out)] = Return("sendTransaction", <<>>)
        ELSE out = <<out[1], Call("sendTransaction",
                                  <<r.pk, out[1].arg[3][1], r.amount>>)>>
  /\ \A i \in 1..Len(out) :
        (out[i].kind = "call" /\ out[i].name = "sendTransaction") =>
          ~Includes(out[i].arg[2], PAT_DotBan)

\* the name resolved to the empty string: no transaction, an error, null
C6_Witness ==
  /\ IsAt(out, 1, "settle", "resolveBNS")
  /\ out[1].arg[2] = "resolve"
  /\ out[1].arg[3] = <<EmptyString>>
  /\ CountOf(out, "call", "sendTransaction") = 0
  /\ error # Null
  /\ out[Len(out)] = Return("sendTransaction", <<>>)

\* C7 as stated: window.banano is examined at most 3 times in total.
C7_Original ==
  examined <= 3

\* C7 as amended: window.banano is examined at most 4 times in total, once
\* on mount and on at most 3 retries, each scheduled 500 ms after the
\* failed attempt before it; once the handle is found no examination is
\* scheduled.
C7_Amended ==
  /\ examined <= 4
  /\ retryCount <= 3
  /\ examined <= retryCount + 1
  /\ initialized => ~pollTimer
  /\ \A i \in 1..Len(out) :
        IsAt(out, i, "setTimeout", "tryInitialize") => out[i].arg = <<500>>

\* the handle is found on the fourth and last examination
C7_Witness ==
  examined = 4 /\ initialized /\ ~pollTimer

\* C8: when window.banano was absent at every attempt, from the last
\* attempt on isInstalled is false, no provider is held, the slot is never
\* examined again (even after the handle appears) and no listener is
\* subscribed; every wrapper called from then on makes no provider call
\* and returns its null result (the empty list for getAccounts).
Exhausted ==
  mounted /\ ~initialized /\ ~pollTimer
C8_Step ==
  Exhausted =>
    /\ ~isInstalled /\ ~isInstalled'
    /\ provider = Null /\ provider' = Null
    /\ Exhausted'
    /\ examined' = examined
    /\ listeners'.connect = 0
    /\ pending' = EmptyMap
    /\ (Len(out') >= 1 /\ out'[1].kind = "invoke") =>
          /\ \A i \in 1..Len(out') : out'[i].kind # "call"
          /\ out'[Len(out')].kind = "return"
          /\ out'[Len(out')].arg =
               IF out'[1].name = "getAccounts" THEN << <<>> >> ELSE <<>>
C8_NotInstalledForGood ==
  [][C8_Step]_vars

\* discovery gave up, the handle appeared later, and connect() failed with
\* an error value
C8_Witness ==
  /\ Exhausted
  /\ windowBanano
  /\ ~isInstalled
  /\ IsAt(out, 1, "invoke", "connect")
  /\ error # Null

\* C9: after a connect(publicKey, accounts?) event the bridge is connected,
\* the active account is publicKey, the account list is accounts, or
\* [publicKey] when the event carries none, the error is null, the cache is
\* empty, the user-disconnected flag is false and onConnect was called once,
\* with publicKey.
C9_ConnectEvent ==
  IsAt(out, 1, "event", "connect") =>
    LET pk == out[1].arg[1]
        accs == out[1].arg[2]
    IN
    /\ isConnected
    /\ publicKey = pk
    /\ accounts = IF accs = <<>> THEN <<pk>> ELSE accs[1]
    /\ error = Null
    /\ cache = EmptyMap
    /\ ~userDisconnected
    /\ CountOf(out, "callback", "onConnect") = 1
    /\ out[2] = Callback("onConnect", <<pk>>)

\* a connect event carrying an empty account list, after the user had
\* disconnected: the list is empty and the flag is cleared
C9_Witness ==
  /\ IsAt(out, 1, "event", "connect")
  /\ out[1].arg[2] = << <<>> >>
  /\ accounts = <<>>
  /\ everDisconnected
  /\ ~userDisconnected

\* C10: a disconnect event leaves the bridge disconnected with no active
\* account, an empty account list and an empty cache, calls onDisconnect
\* once, and leaves the user-disconnected flag and the error as they were.
C10_Step ==
  IsAt(out', 1, "event", "disconnect") =>
    /\ ~isConnected'
    /\ publicKey' = Null
    /\ accounts' = <<>>
    /\ cache' = EmptyMap
    /\ userDisconnected' = userDisconnected
    /\ error' = error
    /\ CountOf(out', "callback", "onDisconnect") = 1
C10_DisconnectEvent ==
  [][C10_Step]_vars

\* a disconnect event handled while the flag is set and an error is shown
C10_Witness ==
  /\ IsAt(out, 1, "event", "disconnect")
  /\ userDisconnected
  /\ error # Null
  /\ ~isConnected

\* C11 as stated: an accountChanged(newPublicKey) event ends in the state
\* and with the callbacks of a connect event carrying newPublicKey and the
\* list [newPublicKey]: connected, newPublicKey active, the list
\* [newPublicKey], no error, the user-disconnected flag false, an empty
\* cache and onConnect(newPublicKey) called once.
C11_Step ==
  IsAt(out', 1, "event", "accountChanged") =>
    LET pk == out'[1].arg[1] IN
    /\ isConnected'
    /\ publicKey' = pk
    /\ accounts' = <<pk>>
    /\ cache' = EmptyMap
    /\ error' = Null
    /\ ~userDisconnected'
    /\ SubSeq(out', 2, Len(out')) = <<Callback("onConnect", <<pk>>)>>
C11_Original ==
  [][C11_Step]_vars

\* the eleven action wrappers, and those that need an active account
Wrappers ==
  {"connect", "disconnect", "getAccounts", "getBalance", "getAccountInfo",
   "sendTransaction", "signMessage", "verifySignedMessage", "signBlock",
   "sendBlock", "resolveBNS"}
NeedsAccount(invoke) ==
  \/ invoke.name \in {"sendTransaction", "signMessage", "signBlock", "sendBlock"}
  \/ invoke.name = "verifySignedMessage"
       /\ invoke.arg[3] \in {Null, Undefined, EmptyString}
\* the null or empty result of a wrapper
Sentinel(name) ==
  Return(name, IF name = "getAccounts" THEN << <<>> >> ELSE <<>>)
\* a step that invokes a wrapper without a provider, or without an active
\* account a wrapper that needs one
C12_Case ==
  /\ Len(out') >= 1
  /\ out'[1].kind = "invoke"
  /\ out'[1].name \in Wrappers
  /\ \/ provider = Null
     \/ NeedsAccount(out'[1]) /\ publicKey = Null

\* C12 as stated: every wrapper invoked without a provider, and every
\* wrapper that needs an active account invoked without one, makes no
\* provider call, leaves a non-null error recorded and returns its null or
\* empty result.
C12_OriginalStep ==
  C12_Case =>
    /\ \A i \in 1..Len(out') : out'[i].kind # "call"
    /\ error' # Null
    /\ out'[Len(out')] = Sentinel(out'[1].name)
C12_Original ==
  [][C12_OriginalStep]_vars

\* C12: as stated for every wrapper but disconnect, with the error
\* recorded being 'MonkeyMask not installed' without a provider and
\* 'No account selected' without an active account; disconnect() without a
\* provider makes no provider call and returns, and records no error: the
\* error state keeps its value.
C12_Step ==
  C12_Case =>
    /\ \A i \in 1..Len(out') : out'[i].kind # "call"
    /\ out'[Len(out')] = Sentinel(out'[1].name)
    /\ pending' = pending
    /\ IF out'[1].name = "disconnect"
       THEN error' = error /\ Len(out') = 2
       ELSE /\ error' = IF provider = Null THEN ERR_NotInstalled
                        ELSE ERR_NoAccount
            /\ out'[2] = Callback("onError", <<error'>>)
C12_Amended ==
  [][C12_Step]_vars

\* signBlock was invoked with a provider held and no active account and
\* returned null with the error recorded
C12_Witness ==
  /\ provider # Null
  /\ publicKey = Null
  /\ IsAt(out, 1, "invoke", "signBlock")
  /\ out[Len(out)] = Return("signBlock", <<>>)
  /\ error = ERR_NoAccount

IsReturn(e) ==
  e.kind = "return"
\* a step in which a provider promise awaited by a wrapper rejects
RejectionStep ==
  /\ Len(out') >= 1
  /\ out'[1].kind = "settle"
  /\ out'[1].arg[2] = "reject"
  /\ out'[1].arg[1].op \in Wrappers

\* C13: when the provider call of a wrapper rejects, every wrapper call
\* awaiting it resolves with its null or empty result (null, [] for
\* getAccounts, void for connect and disconnect) and the error state then
\* holds a message, whatever lifecycle events came in between.
C13_Step ==
  RejectionStep =>
    LET waiters == out'[1].arg[1].waiters IN
    /\ SelectSeq(out', IsReturn) =
         [i \in 1..Len(waiters) |-> Sentinel(waiters[i])]
    /\ error' \notin {Null, Undefined, EmptyString}
C13_RejectionResolves ==
  [][C13_Step]_vars

\* provider.signMessage rejected with a value that has no message, after
\* a disconnect event arrived while it was pending
C13_Witness ==
  /\ IsAt(out, 1, "settle", "signMessage")
  /\ out[1].arg[2] = "reject"
  /\ out[1].arg[3] = <<Undefined>>
  /\ publicKey = Null
  /\ out[Len(out)] = Return("signMessage", <<>>)
  /\ error = DEF_SignMessage

\* a step in which a wrapper fails with a capability-lost message
CapabilityLostStep ==
  \E i \in 1..Len(out') :
    /\ out'[i].kind = "callback"
    /\ out'[i].name = "onError"
    /\ \/ Includes(out'[i].arg[1], PAT_ContextInvalidated)
       \/ Includes(out'[i].arg[1], PAT_MessagePortClosed)

\* C14: a wrapper failing with a message that contains 'context
\* invalidated' or 'message port closed' leaves the bridge, from any prior
\* state, not connected, without active account, with an empty account
\* list and with the reload instruction as error.
C14_Step ==
  CapabilityLostStep =>
    /\ ~isConnected'
    /\ publicKey' = Null
    /\ accounts' = <<>>
    /\ error' = MSG_ConnectionLost
C14_CapabilityLost ==
  [][C14_Step]_vars

\* provider.sendTransaction, called for the active account, rejected with
\* 'The message port closed before a response was received.'
C14_Witness ==
  /\ IsAt(out, 1, "settle", "sendTransaction")
  /\ out[1].arg[1].pk = ADDR_1
  /\ out[1].arg[3] = <<PE_PortClosed>>
  /\ ~isConnected
  /\ publicKey = Null
  /\ accounts = <<>>
  /\ error = MSG_ConnectionLost

HasCall(o) ==
  \E i \in 1..Len(o) : o[i].kind = "call"
HasOnError(o) ==
  \E i \in 1..Len(o) : o[i].kind = "callback" /\ o[i].name = "onError"
\* a step in which a wrapper starts its action: it calls the provider
StartStep ==
  /\ Len(out') >= 1
  /\ out'[1].kind = "invoke"
  /\ out'[1].name \in Wrappers
  /\ HasCall(out')
\* a step of a wrapper, at invocation or at settlement, in which it does
\* not fail
QuietStep ==
  /\ Len(out') >= 1
  /\ \/ out'[1].kind = "invoke" /\ out'[1].name \in Wrappers
     \/ out'[1].kind = "settle" /\ out'[1].arg[1].op \in Wrappers
  /\ ~HasOnError(out')

\* C15 as stated: every wrapper clears the previously recorded error when
\* it starts its action (which is why a successful action would end with
\* the error state null).
C15_OriginalStep ==
  StartStep => error' = Null
C15_Step ==
  /\ QuietStep =>
       error' = IF out'[1].name = "connect" /\ HasCall(out')
                THEN Null ELSE error
  /\ IsAt(out', 1, "invoke", "clearError") => error' = Null
C16_InvokeStep ==
  (IsAt(out', 1, "invoke", "getBalance") /\ provider # Null) =>
    LET a == out'[1].arg[1]
        t == IF a \notin {Null, Undefined, EmptyString} THEN a
             ELSE IF publicKey # Null THEN publicKey ELSE EmptyString
    IN
    /\ cache' = cache
    /\ IF t = EmptyString
       THEN out' = <<out'[1], Return("getBalance", <<>>)>> /\ pending' = pending
       ELSE IF t \in DOMAIN cache /\ now - cache[t].ts < 5000
       THEN /\ out' = <<out'[1], Return("getBalance", <<cache[t].data.balance>>)>>
            /\ pending' = pending
       ELSE IF t \in DOMAIN inflight
       THEN /\ out' = <<out'[1]>>
            /\ inflight' = inflight
            /\ DOMAIN pending' = DOMAIN pending
            /\ pending'[inflight[t]].waiters =
                 Append(pending[inflight[t]].waiters, "getBalance")
       ELSE /\ out' = <<out'[1], Call("getAccountInfo", <<t>>)>>
            /\ Cardinality(DOMAIN pending') = Cardinality(DOMAIN pending) + 1
C16_SettleStep ==
  IsAt(out', 1, "settle", "getAccountInfo") =>
    LET waiters == out'[1].arg[1].waiters
        resolved == out'[1].arg[2] = "resolve"
        data == out'[1].arg[3][1]
    IN
    \A i \in 1..Len(waiters) :
      \E j \in 2..Len(out') :
        /\ Cardinality({k \in 2..j : out'[k].kind = "return"}) = i
        /\ out'[j] =
             IF ~resolved THEN Return(waiters[i], <<>>)
             ELSE IF waiters[i] = "getBalance"
             THEN Return("getBalance", <<data.balance>>)
             ELSE Return("getAccountInfo", <<data>>)
C16_NoProviderGetBalance ==
  \A i \in 1..Len(out') :
    out'[i].kind = "call" => out'[i].name # "getBalance"
C16_BalanceThroughAccountInfo ==
  [][C16_InvokeStep /\ C16_SettleStep /\ C16_NoProviderGetBalance]_vars

\* a getBalance(A) joined a pending getAccountInfo(A): the one provider
\* call resolved, getAccountInfo returned the info and getBalance its
\* balance
C16_Witness ==
  /\ IsAt(out, 1, "settle", "getAccountInfo")
  /\ out[1].arg[1].waiters = <<"getAccountInfo", "getBalance">>
  /\ out[2] = Return("getAccountInfo", <<AccountInfo(ADDR_1, <<"2">>)>>)
  /\ out[3] = Return("getBalance", << <<"2">> >>)

\* C17 as stated: a step that changes the active account, to another
\* account or to none, by whatever path, leaves the account-info cache
\* empty.
C17_Step ==
  publicKey' # publicKey => cache' = EmptyMap
C17_Original ==
  [][C17_Step]_vars

\* C18: the in-flight registry has an entry for an address exactly while
\* a provider.getAccountInfo call for it is pending, and the entry names
\* that call; so the registry is empty when no call is pending.  The step
\* in which the call for an address rejects removes the entry, writes
\* nothing to the cache and leaves no fresh entry for the address, so the
\* next getAccountInfo for it calls the provider again; the step in which
\* it resolves removes the entry as well.
C18_Registry ==
  /\ DOMAIN inflight =
       {pending[s].args[1] :
          s \in {x \in DOMAIN pending : pending[x].method = "getAccountInfo"}}
  /\ \A t \in DOMAIN inflight :
       /\ inflight[t] \in DOMAIN pending
       /\ pending[inflight[t]].method = "getAccountInfo"
       /\ pending[inflight[t]].args[1] = t
C18_Step ==
  /\ C18_Registry'
  /\ IsAt(out', 1, "settle", "getAccountInfo") =>
       LET t == out'[1].arg[1].args[1] IN
       /\ t \in DOMAIN inflight
       /\ t \notin DOMAIN inflight'
       /\ out'[1].arg[2] = "reject" =>
            /\ cache' = cache
            /\ ~(t \in DOMAIN cache' /\ now' - cache'[t].ts < 5000)
  /\ (IsAt(out', 1, "invoke", "getAccountInfo") /\ HasCall(out')) =>
       LET t == out'[2].arg[1] IN
       /\ t \notin DOMAIN inflight
       /\ t \in DOMAIN inflight'
  /\ (IsAt(out', 1, "invoke", "getAccountInfo") /\ provider # Null) =>
       LET a == out'[1].arg[1]
           t == IF a \notin {Null, Undefined, EmptyString} THEN a
                ELSE IF publicKey # Null THEN publicKey ELSE EmptyString
       IN
       ( /\ t # EmptyString
         /\ t \notin DOMAIN inflight
         /\ ~(t \in DOMAIN cache /\ now - cache[t].ts < 5000) ) =>
           out' = <<out'[1], Call("getAccountInfo", <<t>>)>>
C18_InFlightRegistry ==
  [][C18_Step]_vars

\* the call for ban_1, awaited by two getAccountInfo calls, rejected: the
\* registry is empty again and the cache has no entry for ban_1
C18_Witness ==
  /\ IsAt(out, 1, "settle", "getAccountInfo")
  /\ out[1].arg[2] = "reject"
  /\ out[1].arg[1].args = <<ADDR_1>>
  /\ Len(out[1].arg[1].waiters) = 2
  /\ inflight = EmptyMap
  /\ pending = EmptyMap
  /\ ADDR_1 \notin DOMAIN cache

\* what a getAccountInfo step does when it queries address t: it returns
\* t's fresh cache entry, joins the pending call for t or calls
\* provider.getAccountInfo(t)
Queries(t) ==
  \/ /\ t \in DOMAIN cache
     /\ out' = <<out'[1], Return("getAccountInfo", <<cache[t].data>>)>>
     /\ pending' = pending
  \/ /\ t \in DOMAIN inflight
     /\ out' = <<out'[1]>>
     /\ pending'[inflight[t]].waiters =
          Append(pending[inflight[t]].waiters, "getAccountInfo")
  \/ /\ out' = <<out'[1], Call("getAccountInfo", <<t>>)>>
     /\ t \in DOMAIN inflight'

\* C19: with a provider held, getAccountInfo() without address argument
\* and without active account returns null, calls nothing and leaves the
\* error, the cache and the registry as they were; with an address
\* argument it queries that address, whatever the active account is, and
\* without one it queries the active account.
C19_Step ==
  (IsAt(out', 1, "invoke", "getAccountInfo") /\ provider # Null) =>
    LET address == out'[1].arg[1] IN
    IF address \notin {Null, Undefined, EmptyString}
    THEN Queries(address)
    ELSE IF publicKey # Null
    THEN Queries(publicKey)
    ELSE /\ out' = <<out'[1], Return("getAccountInfo", <<>>)>>
         /\ error' = error
         /\ cache' = cache
         /\ inflight' = inflight
         /\ pending' = pending
C19_EffectiveTarget ==
  [][C19_Step]_vars

\* getAccountInfo() returned null with a provider held and no active
\* account, leaving an earlier entry in the cache
C19_Witness ==
  /\ out = <<Invoke("getAccountInfo", <<Undefined>>),
             Return("getAccountInfo", <<>>)>>
  /\ provider # Null
  /\ publicKey = Null
  /\ cache # EmptyMap

\* C20 as stated: isConnecting and isConnected are never both true.
C20_Original ==
  ~(isConnecting /\ isConnected)

\* C20: isConnecting and isConnected are two flags that can both be true.
\* isConnecting is true only while a provider.connect call of an explicit
\* connect() is pending: it becomes true in the step in which connect()
\* calls the provider and false in a step in which such a call settles,
\* and no lifecycle event changes it, so an event that arrives while
\* connect() is pending sets isConnected with isConnecting still true.
C20_Step ==
  /\ isConnecting' =>
       \E s \in DOMAIN pending' : pending'[s].op = "connect"
  /\ (isConnecting' /\ ~isConnecting) =>
       IsAt(out', 1, "invoke", "connect") /\ HasCall(out')
  /\ (isConnecting /\ ~isConnecting') =>
       IsAt(out', 1, "settle", "connect") /\ out'[1].arg[1].op = "connect"
  /\ (Len(out') >= 1 /\ out'[1].kind = "event") =>
       isConnecting' = isConnecting
C20_Amended ==
  [][C20_Step]_vars

\* a connect event arrived while an explicit connect() was pending: both
\* flags are true
C20_Witness ==
  /\ IsAt(out, 1, "event", "connect")
  /\ isConnecting
  /\ isConnected
  /\ \E s \in DOMAIN pending : pending[s].op = "connect"

\* C21: while isInstalled is false the connect button renders the install
\* link, whatever error, isConnected and isConnecting are, and, with
\* connect(), disconnect() and clearError() reachable through the button
\* only, none of them is invoked in such a state.
C21_Step ==
  /\ ~isInstalled' =>
       \A isAccountSwitching \in BOOLEAN :
         ConnectButton(isAccountSwitching)' =
           [affordance |-> "install", disabled |-> FALSE]
  /\ ( /\ Len(out') >= 1
       /\ out'[1].kind = "invoke"
       /\ out'[1].name \in {"connect", "disconnect", "clearError"} ) =>
       isInstalled
C21_InstallAffordance ==
  [][C21_Step]_vars

\* discovery gave up and an action recorded an error: the button still is
\* the install link
C21_Witness ==
  /\ Exhausted
  /\ ~isInstalled
  /\ error # Null
  /\ windowBanano
  /\ ConnectButton(FALSE).affordance = "install"

(* --------------------------- claims C22 .. C30 ------------------------ *)
\* the last step answered a POST of the verification route
C22_IsPost ==
  /\ Len(out) >= 2
  /\ out[1] = Invoke("POST", out[1].arg)
  /\ out[Len(out)].kind = "return"
C22_Readable ==
  out[1].arg[1].body # <<>>
C22_Missing ==
  LET b == out[1].arg[1].body[1] IN
  \/ b.message \in {Undefined, EmptyString}
  \/ b.signature \in {Undefined, EmptyString}
  \/ b.publicKey \in {Undefined, EmptyString}
C22_NotAString ==
  LET b == out[1].arg[1].body[1] IN
  <<"NUMBER">> \in {b.message, b.signature, b.publicKey}
C22_Thrown ==
  \E i \in 1..Len(out) : out[i].kind = "result" /\ out[i].arg = <<"throws">>
C22_NoVerification ==
  \A i \in 1..Len(out) : out[i].kind \notin {"call", "result"}
C22_MessageToVerify ==
  LET r == out[1].arg[1]
      b == r.body[1]
      o == IF b.origin \notin {Undefined, EmptyString} THEN b.origin
           ELSE IF r.origin # Null THEN r.origin
           ELSE <<"u","n","k","n","o","w","n">>
  IN <<"M","o","n","k","e","y","M","a","s","k"," ","S","i","g","n","e","d"," ",
       "M","e","s","s","a","g","e",":","\n","O","r","i","g","i","n",":"," ">>
     \o o \o <<"\n","M","e","s","s","a","g","e",":"," ">> \o b.message
\* the parts of C22 on missing parameters and on valid:true
C22_Validation ==
  LET response == out[Len(out)].arg[1] IN
  /\ (C22_Readable /\ C22_Missing) =>
       /\ response.status = 400
       /\ response.body.valid = FALSE
       /\ C22_NoVerification
  /\ response.body.valid = TRUE =>
       /\ response.status = 200
       /\ \E i \in 1..(Len(out) - 1) :
            /\ out[i].kind = "call"
            /\ out[i].name = "verifyMessage"
            /\ out[i].arg[2] = C22_MessageToVerify
            /\ out[i].arg[3] = out[1].arg[1].body[1].signature
            /\ out[i + 1].kind = "result"
            /\ out[i + 1].arg = <<"true">>

\* C22 as stated: missing or empty message, signature or publicKey gives
\* 400 with valid:false and no verification; valid:true comes only with
\* status 200 and a verifier that returned true for the domain-separated
\* message; every unexpected failure (an unreadable body, a field that is
\* not a string, an exception of the address conversion or of the
\* verifier) gives status 500 with valid:false.
C22_Original ==
  C22_IsPost =>
    /\ C22_Validation
    /\ ( \/ ~C22_Readable
         \/ (~C22_Missing /\ C22_NotAString)
         \/ C22_Thrown ) =>
         /\ out[Len(out)].arg[1].status = 500
         /\ out[Len(out)].arg[1].body.valid = FALSE

\* C22: missing or empty message, signature or publicKey gives 400 with
\* valid:false and no verification; valid:true comes only with status 200
\* and a verifier that returned true for the domain-separated message built
\* from the origin and the raw message; a failure before the verification
\* (an unreadable body, a field that is not a string) gives status 500
\* with valid:false and no verification, while an exception thrown by the
\* address conversion or by the verifier gives status 200 with valid:false.
C22_Amended ==
  C22_IsPost =>
    /\ C22_Validation
    /\ (~C22_Readable \/ (~C22_Missing /\ C22_NotAString)) =>
         /\ out[Len(out)].arg[1].status = 500
         /\ out[Len(out)].arg[1].body.valid = FALSE
         /\ C22_NoVerification
    /\ C22_Thrown =>
         /\ out[Len(out)].arg[1].status = 200
         /\ out[Len(out)].arg[1].body.valid = FALSE

\* the verifier threw for a converted address and the answer is a 200
C22_Witness ==
  /\ C22_IsPost
  /\ C22_Thrown
  /\ Len(out) = 6
  /\ out[5].arg = <<"throws">>
  /\ out[6].arg[1].status = 200
  /\ out[6].arg[1].body.valid = FALSE

\* C23: a connect, disconnect or accountChanged event handled while
\* provider.getAccountInfo(A) calls are outstanding leaves the in-flight
\* registry, the outstanding requests and their awaiting callers as they
\* are; a request that was outstanding at a disconnect of its account
\* answers every awaiting caller when it settles, with its data when it
\* resolves; and getAccountInfo(A) invoked while such a request is
\* outstanding joins it without a second provider call.
C23_Step ==
  /\ (Len(out') >= 1 /\ out'[1].kind = "event") =>
       /\ inflight' = inflight
       /\ DOMAIN pending' = DOMAIN pending
       /\ \A s \in DOMAIN pending :
            /\ pending'[s].method = pending[s].method
            /\ pending'[s].args = pending[s].args
            /\ pending'[s].waiters = pending[s].waiters
  /\ ( /\ IsAt(out', 1, "settle", "getAccountInfo")
       /\ out'[1].arg[1].disconnectedSince ) =>
       LET r == out'[1].arg[1] IN
       /\ r.waiters = pending[inflight[r.args[1]]].waiters
       /\ Len(r.waiters) >= 1
       /\ CountOf(out', "return", "getAccountInfo") = Len(r.waiters)
       /\ out'[1].arg[2] = "resolve" =>
            \A i \in 1..Len(r.waiters) :
              out'[1 + i] = Return("getAccountInfo", out'[1].arg[3])
  /\ ( /\ IsAt(out', 1, "invoke", "getAccountInfo")
       /\ out'[1].arg[1] \in DOMAIN inflight
       /\ pending[inflight[out'[1].arg[1]]].disconnectedSince ) =>
       LET s == inflight[out'[1].arg[1]] IN
       /\ out' = <<out'[1]>>
       /\ inflight' = inflight
       /\ DOMAIN pending' = DOMAIN pending
       /\ pending'[s].waiters = Append(pending[s].waiters, "getAccountInfo")
C23_EventsKeepRequests ==
  [][C23_Step]_vars

\* a request outstanding at the disconnect of its account, joined by a
\* call made after the event, resolved and answered both callers
C23_Witness ==
  /\ IsAt(out, 1, "settle", "getAccountInfo")
  /\ out[1].arg[2] = "resolve"
  /\ out[1].arg[1].disconnectedSince
  /\ out[1].arg[1].joinedAfter
  /\ Len(out) = 3
  /\ out[2] = Return("getAccountInfo", out[1].arg[3])
  /\ out[3] = out[2]

\* C24: getAccountInfo calls for two different addresses are independent.
\* A call for an address that has no fresh entry and no outstanding request
\* issues a provider call for that address whatever is outstanding for the
\* other one and leaves the other's registry entry alone; whichever request
\* settles first, its callers receive its own data, the data is stored
\* under its own address and nothing is stored, removed or returned for
\* the other address.
C24_Step ==
  /\ ( /\ IsAt(out', 1, "invoke", "getAccountInfo")
       /\ provider # Null
       /\ out'[1].arg[1] \in Addrs
       /\ out'[1].arg[1] \notin DOMAIN inflight
       /\ ~( /\ out'[1].arg[1] \in DOMAIN cache
             /\ now - cache[out'[1].arg[1]].ts < 5000 ) ) =>
       LET t == out'[1].arg[1] IN
       /\ out' = <<out'[1], Call("getAccountInfo", <<t>>)>>
       /\ DOMAIN inflight' = DOMAIN inflight \cup {t}
       /\ pending'[inflight'[t]].args = <<t>>
       /\ \A u \in DOMAIN inflight :
            /\ inflight'[u] = inflight[u]
            /\ pending'[inflight'[u]] = pending[inflight[u]]
  /\ IsAt(out', 1, "settle", "getAccountInfo") =>
       LET t == out'[1].arg[1].args[1] IN
       /\ DOMAIN inflight' = DOMAIN inflight \ {t}
       /\ \A u \in DOMAIN inflight' :
            /\ inflight'[u] = inflight[u]
            /\ pending'[inflight'[u]] = pending[inflight[u]]
       /\ \A u \in Addrs \ {t} :
            /\ (u \in DOMAIN cache') = (u \in DOMAIN cache)
            /\ u \in DOMAIN cache => cache'[u] = cache[u]
       /\ DOMAIN cache' \subseteq Addrs
       /\ \A i \in 2..Len(out') :
            out'[i].kind = "return" /\ out'[i].arg # <<>> =>
              out'[i].arg[1].address = t
       /\ IF out'[1].arg[2] = "resolve"
          THEN /\ t \in DOMAIN cache'
               /\ cache'[t].data = out'[1].arg[3][1]
               /\ cache'[t].data.address = t
               /\ \A i \in 2..Len(out') : out'[i].arg = out'[1].arg[3]
          ELSE (t \in DOMAIN cache') = (t \in DOMAIN cache)
C24_Independent ==
  [][C24_Step]_vars

\* the request for ADDR_2, issued second, resolved first: its data is in
\* the cache under ADDR_2 while the request for ADDR_1 is outstanding
C24_Witness ==
  /\ IsAt(out, 1, "settle", "getAccountInfo")
  /\ out[1].arg[2] = "resolve"
  /\ out[1].arg[1].args = <<ADDR_2>>
  /\ ADDR_1 \in DOMAIN inflight
  /\ inflight[ADDR_1] = 1
  /\ pending[1].args = <<ADDR_1>>
  /\ ADDR_2 \in DOMAIN cache
  /\ cache[ADDR_2].data.address = ADDR_2
  /\ ADDR_1 \notin DOMAIN cache
  /\ publicKey = ADDR_1

\* what each lifecycle event makes of isConnected, publicKey and accounts
C25_EventDecides ==
  /\ IsAt(out', 1, "event", "connect") =>
       /\ isConnected'
       /\ publicKey' = out'[1].arg[1]
       /\ accounts' = IF out'[1].arg[2] = <<>> THEN <<out'[1].arg[1]>>
                      ELSE out'[1].arg[2][1]
  /\ IsAt(out', 1, "event", "disconnect") =>
       /\ ~isConnected'
       /\ publicKey' = Null
       /\ accounts' = <<>>
  /\ IsAt(out', 1, "event", "accountChanged") =>
       /\ isConnected'
       /\ publicKey' = out'[1].arg[1]
       /\ accounts' = <<out'[1].arg[1]>>
\* a step that handles no event and in which no action fails
C25_Between ==
  /\ Len(out') >= 1
  /\ out'[1].kind # "event"
  /\ CountOf(out', "callback", "onError") = 0

C25_Step ==
  /\ C25_EventDecides
  /\ C25_Between =>
       /\ UNCHANGED <<isConnected, publicKey>>
       /\ IF /\ IsAt(out', 1, "settle", "getAccounts")
             /\ out'[1].arg[2] = "resolve"
          THEN accounts' = out'[1].arg[3][1]
          ELSE accounts' = accounts
C26_Step ==
  \A i \in 1..Len(out') :
    ( /\ out'[i].kind = "callback"
      /\ out'[i].name = "onError"
      /\ ~Includes(out'[i].arg[1], PAT_ContextInvalidated)
      /\ ~Includes(out'[i].arg[1], PAT_MessagePortClosed) ) =>
      LET m == out'[i].arg[1] IN
      /\ UNCHANGED <<isConnected, publicKey, accounts, userDisconnected, cache>>
      /\ error' =
           IF Includes(m, PAT_Locked) \/ Includes(m, PAT_Unlock)
           THEN MSG_WalletLocked
           ELSE IF Includes(m, PAT_Rejected) \/ Includes(m, PAT_UserRejected)
           THEN MSG_UserRejected
           ELSE m
C26_BenignFailures ==
  [][C26_Step]_vars

\* a provider call was rejected with 'Wallet is locked' while connected
\* with a filled cache: the advisory is stored and the connection stands
C26_Witness ==
  /\ \E i \in 1..Len(out) : out[i] = Callback("onError", <<PE_Locked>>)
  /\ error = MSG_WalletLocked
  /\ isConnected
  /\ publicKey = ADDR_1
  /\ accounts = <<ADDR_1>>
  /\ cache # EmptyMap

\* C27: a timeout of the auto-connect effect is pending only while
\* autoConnect is enabled, a provider is held and the user-disconnected
\* flag is false, its delay is 800 ms, and when it fires it calls
\* provider.connect only if the provider reports itself not connected,
\* with {onlyIfTrusted: true}; no other step calls provider.connect with
\* onlyIfTrusted true; a rejection of that call leaves the error and the
\* rest of the bridge state as they were and calls no onError.
C27_Step ==
  /\ autoTimer' => (autoConnect /\ provider' # Null /\ ~userDisconnected')
  /\ \A i \in 1..Len(out') :
       out'[i].kind = "setTimeout" /\ out'[i].name = "autoConnect" =>
         out'[i].arg = <<800>>
  /\ \A i \in 1..Len(out') :
       ( /\ out'[i].kind = "call"
         /\ out'[i].name = "connect"
         /\ out'[i].arg[1].onlyIfTrusted ) =>
         /\ i = 2
         /\ out'[1] = Invoke("autoConnect", <<>>)
         /\ autoTimer
         /\ autoConnect
         /\ provider # Null
         /\ ~userDisconnected
         /\ ~provConnected
  /\ IsAt(out', 1, "invoke", "autoConnect") =>
       /\ (provider # Null /\ ~provConnected) =>
            out' = <<out'[1], Call("connect", <<[onlyIfTrusted |-> TRUE]>>)>>
       /\ ~(provider # Null /\ ~provConnected) => out' = <<out'[1]>>
  /\ ( /\ Len(out') >= 1
       /\ out'[1].kind = "settle"
       /\ out'[1].arg[1].op = "autoConnect"
       /\ out'[1].arg[2] = "reject" ) =>
       /\ Len(out') = 1
       /\ UNCHANGED <<error, isConnected, isConnecting, publicKey, accounts,
                      userDisconnected, cache, autoTimer>>
C27_AutoConnect ==
  [][C27_Step]_vars

\* the automatic call was rejected after an explicit connect() had failed:
\* the error of the explicit call is still there
C27_Witness ==
  /\ Len(out) = 1
  /\ out[1].kind = "settle"
  /\ out[1].arg[1].op = "autoConnect"
  /\ out[1].arg[1].args = <<[onlyIfTrusted |-> TRUE]>>
  /\ out[1].arg[2] = "reject"
  /\ error # Null
  /\ autoConnect

\* C28: sendTransaction for a destination that does not contain '.ban',
\* invoked with a provider and an active account, calls no resolveBNS and
\* calls provider.sendTransaction once, with the active account as sender
\* and the destination and the amount as given; and no invocation leads to
\* a second provider.sendTransaction call: a step makes at most one such
\* call, either the invocation itself or the resolution of its name, and
\* the settlement of the call makes none.
C28_Step ==
  /\ ( /\ IsAt(out', 1, "invoke", "sendTransaction")
       /\ provider # Null
       /\ publicKey \in Addrs
       /\ ~Includes(out'[1].arg[1], PAT_DotBan) ) =>
       /\ out' = <<out'[1],
                   Call("sendTransaction",
                        <<publicKey, out'[1].arg[1], out'[1].arg[2]>>)>>
       /\ \E s \in DOMAIN pending' \ DOMAIN pending :
            /\ pending'[s].method = "sendTransaction"
            /\ DOMAIN pending' = DOMAIN pending \cup {s}
  /\ CountOf(out', "call", "sendTransaction") <= 1
  /\ CountOf(out', "call", "sendTransaction") = 1 =>
       \/ /\ IsAt(out', 1, "invoke", "sendTransaction")
          /\ CountOf(out', "call", "resolveBNS") = 0
       \/ /\ IsAt(out', 1, "settle", "resolveBNS")
          /\ out'[1].arg[1].op = "sendTransaction"
          /\ DOMAIN pending' = DOMAIN pending
  /\ IsAt(out', 1, "settle", "sendTransaction") =>
       /\ CountOf(out', "call", "sendTransaction") = 0
       /\ CountOf(out', "call", "resolveBNS") = 0
       /\ Cardinality(DOMAIN pending') = Cardinality(DOMAIN pending) - 1
C28_RawAddress ==
  [][C28_Step]_vars

\* a raw address was sent to from ADDR_1 without a resolution
C28_Witness ==
  /\ IsAt(out, 1, "invoke", "sendTransaction")
  /\ out[1].arg[1] = ADDR_2
  /\ Len(out) = 2
  /\ out[2] = Call("sendTransaction", <<ADDR_1, ADDR_2, out[1].arg[2]>>)
  /\ publicKey = ADDR_1

\* C29: in every reachable state isConnected is true exactly when an
\* account is active (publicKey is not null).
C29_ConnectedIffAccount ==
  isConnected <=> publicKey # Null

\* connect() failed with a capability-lost rejection while the provider
\* held a connection: not connected and no active account
C29_Witness ==
  /\ IsAt(out, 1, "settle", "connect")
  /\ out[1].arg[2] = "reject"
  /\ error = MSG_ConnectionLost
  /\ ~isConnected
  /\ publicKey = Null
  /\ provConnected

\* C30: sendTransaction submits from the account that was active when it
\* was invoked.  An invocation with a provider and an active account
\* records that account with its request; no lifecycle event changes the
\* account recorded with an outstanding request; and when the name
\* resolves provider.sendTransaction is called with the recorded account
\* as sender, whatever the active account is by then.
C30_Step ==
  /\ ( /\ IsAt(out', 1, "invoke", "sendTransaction")
       /\ provider # Null
       /\ publicKey \in Addrs ) =>
       \E s \in DOMAIN pending' \ DOMAIN pending :
         /\ pending'[s].op = "sendTransaction"
         /\ pending'[s].pk = publicKey
         /\ pending'[s].to = out'[1].arg[1]
         /\ pending'[s].amount = out'[1].arg[2]
  /\ (Len(out') >= 1 /\ out'[1].kind = "event") =>
       /\ DOMAIN pending' = DOMAIN pending
       /\ \A s \in DOMAIN pending :
            /\ pending'[s].pk = pending[s].pk
            /\ pending'[s].method = pending[s].method
            /\ pending'[s].args = pending[s].args
  /\ ( /\ IsAt(out', 1, "settle", "resolveBNS")
       /\ out'[1].arg[1].op = "sendTransaction"
       /\ out'[1].arg[2] = "resolve"
       /\ out'[1].arg[3][1] \in Addrs ) =>
       /\ out'[1].arg[1].pk \in Addrs
       /\ out' = <<out'[1],
                   Call("sendTransaction",
                        <<out'[1].arg[1].pk, out'[1].arg[3][1],
                          out'[1].arg[1].amount>>)>>
C30_SenderAtInvocation ==
  [][C30_Step]_vars

\* the name resolved after the active account had changed: the transaction is sent
\* from ADDR_1 while ADDR_2 is the active account
C30_Witness ==
  /\ IsAt(out, 1, "settle", "resolveBNS")
  /\ out[1].arg[1].op = "sendTransaction"
  /\ Len(out) = 2
  /\ out[2].kind = "call"
  /\ out[2].name = "sendTransaction"
  /\ out[2].arg[1] = ADDR_1
  /\ publicKey = ADDR_2
  /\ isConnected

(* --------------------------- claims C31 .. C35 ------------------------ *)
\* C31: connect() invoked with a provider held sets the user-disconnected
\* flag to false in the step that calls provider.connect, and where the
\* flag was true and autoConnect is enabled that step schedules the
\* auto-connect timeout anew; the rejection of the provider.connect call
\* changes neither the flag nor the timeout; connect() invoked without a
\* provider leaves the flag as it was.
C31_Step ==
  /\ (IsAt(out', 1, "invoke", "connect") /\ provider # Null) =>
       /\ IsAt(out', 2, "call", "connect")
       /\ ~userDisconnected'
       /\ (userDisconnected /\ autoConnect) =>
            /\ autoTimer'
            /\ IsAt(out', 3, "setTimeout", "autoConnect")
  /\ (IsAt(out', 1, "invoke", "connect") /\ provider = Null) =>
       /\ CountOf(out', "call", "connect") = 0
       /\ UNCHANGED <<userDisconnected, autoTimer>>
  /\ ( /\ IsAt(out', 1, "settle", "connect")
       /\ out'[1].arg[1].op = "connect"
       /\ out'[1].arg[2] = "reject" ) =>
       UNCHANGED <<userDisconnected, autoTimer>>
C31_ConnectResetsFlag ==
  [][C31_Step]_vars

\* after a disconnect() an explicit connect() was rejected: the flag is
\* false and the auto-connect timeout is pending
C31_Witness ==
  /\ IsAt(out, 1, "settle", "connect")
  /\ out[1].arg[1].op = "connect"
  /\ out[1].arg[2] = "reject"
  /\ everDisconnected
  /\ ~userDisconnected
  /\ autoTimer
  /\ error # Null

\* the steps at which isConnecting is written
C32_Step ==
  /\ (isConnecting' /\ ~isConnecting) =>
       /\ IsAt(out', 1, "invoke", "connect")
       /\ IsAt(out', 2, "call", "connect")
       /\ provider # Null
  /\ (IsAt(out', 1, "invoke", "connect") /\ provider = Null) =>
       /\ ~isConnecting'
       /\ CountOf(out', "call", "connect") = 0
  /\ (IsAt(out', 1, "settle", "connect") /\ out'[1].arg[1].op = "connect") =>
       ~isConnecting'
  /\ isConnecting' =>
       \E s \in DOMAIN pending' :
         pending'[s].op = "connect" /\ pending'[s].method = "connect"
\* C32: isConnecting becomes true only in the step in which connect(),
\* with a provider held, calls provider.connect, and is true only while
\* such a call is outstanding; the step in which such a call settles, by
\* success or by failure, leaves it false; connect() without a provider
\* leaves it false; and, the outstanding calls settling, isConnecting
\* true leads to isConnecting false.
C32_IsConnecting ==
  /\ [][C32_Step]_vars
  /\ isConnecting ~> ~isConnecting

\* the provider.connect call of an explicit connect() was rejected and
\* isConnecting is false again
C32_Witness ==
  /\ IsAt(out, 1, "settle", "connect")
  /\ out[1].arg[1].op = "connect"
  /\ out[1].arg[2] = "reject"
  /\ ~isConnecting
  /\ error # Null
  /\ pending = EmptyMap

\* disconnect() invoked with a provider held sets the flag and calls
\* provider.disconnect, and leaves the connection state and the cache
C33_Invocation ==
  (IsAt(out', 1, "invoke", "disconnect") /\ provider # Null) =>
    /\ IsAt(out', 2, "call", "disconnect")
    /\ userDisconnected'
    /\ UNCHANGED <<isConnected, publicKey, accounts, cache, error>>
\* provider.disconnect was rejected
C33_Rejected ==
  /\ IsAt(out', 1, "settle", "disconnect")
  /\ out'[1].arg[2] = "reject"
C33_CapabilityLost ==
  LET m == out'[2].arg[1] IN
  Includes(m, PAT_ContextInvalidated) \/ Includes(m, PAT_MessagePortClosed)

\* C33 as stated: disconnect() with a provider sets the flag before
\* delegating and changes neither isConnected, the active account, the
\* account list nor the cache; when provider.disconnect rejects the flag
\* stays as it is, the bridge stays as connected as it was and an error
\* is recorded.
C33_Original ==
  [][ /\ C33_Invocation
      /\ C33_Rejected =>
           /\ UNCHANGED <<userDisconnected, isConnected, publicKey, accounts,
                          cache>>
           /\ error' # Null ]_vars

\* C33: disconnect() with a provider sets the flag before delegating and
\* changes neither isConnected, the active account, the account list nor
\* the cache; when provider.disconnect rejects, the flag and the cache
\* stay as they are and an error is recorded, and the bridge stays as
\* connected as it was unless the rejection is classified as capability
\* lost, in which case it is left disconnected with no active account
\* and an empty account list.
C33_Step ==
  /\ C33_Invocation
  /\ C33_Rejected =>
       /\ IsAt(out', 2, "callback", "onError")
       /\ UNCHANGED <<userDisconnected, cache>>
       /\ error' # Null
       /\ IF C33_CapabilityLost
          THEN ~isConnected' /\ publicKey' = Null /\ accounts' = <<>>
          ELSE UNCHANGED <<isConnected, publicKey, accounts>>
C33_Amended ==
  [][C33_Step]_vars

\* provider.disconnect was rejected with 'Internal error': the flag is
\* set, the bridge is connected with a filled cache, the error is stored
C33_Witness ==
  /\ IsAt(out, 1, "settle", "disconnect")
  /\ out[1].arg[2] = "reject"
  /\ userDisconnected
  /\ isConnected
  /\ publicKey = ADDR_1
  /\ cache # EmptyMap
  /\ error = PE_Internal

\* C34: when provider.getAccounts() resolves, the account list becomes the
\* list it resolved with, getAccounts() returns that list, and
\* isConnected, the active account, the error, the flag and the cache are
\* as before, connected or not; when it rejects, and when no provider is
\* held, getAccounts() returns [] and leaves the list as it was, unless the
\* rejection is classified as capability lost, which empties the list.
C34_Step ==
  /\ IsAt(out', 1, "settle", "getAccounts") =>
       IF out'[1].arg[2] = "resolve"
       THEN /\ accounts' = out'[1].arg[3][1]
            /\ out' = <<out'[1], Return("getAccounts", out'[1].arg[3])>>
            /\ UNCHANGED <<isConnected, publicKey, error, userDisconnected,
                           cache, inflight>>
       ELSE /\ out'[Len(out')] = Return("getAccounts", << <<>> >>)
            /\ IsAt(out', 2, "callback", "onError")
            /\ UNCHANGED <<cache, userDisconnected>>
            /\ IF \/ Includes(out'[2].arg[1], PAT_ContextInvalidated)
                  \/ Includes(out'[2].arg[1], PAT_MessagePortClosed)
               THEN accounts' = <<>>
               ELSE UNCHANGED <<accounts, isConnected, publicKey>>
  /\ (IsAt(out', 1, "invoke", "getAccounts") /\ provider = Null) =>
       /\ out'[Len(out')] = Return("getAccounts", << <<>> >>)
       /\ UNCHANGED <<accounts, isConnected, publicKey, cache>>
C34_GetAccounts ==
  [][C34_Step]_vars

\* getAccounts() resolved with two accounts while disconnected, with an
\* entry in the cache: the list is stored and nothing else has changed
C34_Witness ==
  /\ IsAt(out, 1, "settle", "getAccounts")
  /\ out[1].arg[2] = "resolve"
  /\ accounts = <<ADDR_1, ADDR_2>>
  /\ ~isConnected
  /\ publicKey = Null
  /\ cache # EmptyMap

\* C35: within the run of the initialization effect each of the three
\* lifecycle listeners is subscribed at most once, and exactly when the
\* provider handle is set; the handle once set is never replaced or
\* cleared; isInstalled once true stays true; and isInstalled true
\* implies that a handle is held.
C35_Step ==
  /\ \A e \in {"connect", "disconnect", "accountChanged"} :
       /\ listeners'[e] <= 1
       /\ (listeners'[e] = 1) = (provider' # Null)
       /\ listeners'[e] >= listeners[e]
  /\ provider # Null => provider' = provider
  /\ isInstalled => isInstalled'
  /\ isInstalled' => provider' # Null
C35_InitializedOnce ==
  [][C35_Step]_vars

\* window.banano was found on the third retry, the last attempt: the
\* listeners are subscribed once and no further attempt is scheduled
C35_Witness ==
  /\ examined = 4
  /\ retryCount = 3
  /\ initialized
  /\ ~pollTimer
  /\ isInstalled
  /\ provider = Banano
  /\ listeners = [connect |-> 1, disconnect |-> 1, accountChanged |-> 1]
=============================================================================
